---- MODULE Spec2Model ----
(***************************************************************************)
(* Resource telemetry engine of tomek7667/links (internal/http):           *)
(* ResourceMonitor with its TTL caches, CPU-percent estimator, snapshot    *)
(* publication under mu (sync.RWMutex), history ring and ticker lifecycle. *)
(*                                                                         *)
(* Time is counted in whole seconds.  The durations of the source are      *)
(* scaled down (see the bounds below) so that TTL expiry, age trimming and *)
(* count trimming all happen within a few ticks; their order is kept.      *)
(***************************************************************************)
EXTENDS Integers, Sequences, FiniteSets, TLC

\* ------------------------------------------------------------------ bounds
\* Scaled durations (seconds) and sizes; the source values are in comments.
hostIPTTL          == 3   \* resources_process.go:116  30 s
cpuStaticTTL       == 3   \* resources_process.go:117  1 min
cpuDynamicTTLLinux == 2   \* resources_process.go:118  2 s
cpuDynamicTTLOther == 3   \* resources_process.go:119  5 s
disksSampleTTL     == 2   \* resources_process.go:120  5 s
gpusSampleTTL      == 2   \* resources_process.go:121  5 s
historyMaxAge      == 1   \* resources_process.go:122  30 min
historyMaxPoints   == 4   \* resources_process.go
hardwareMetaTTL    == 2   \* resources_process.go
nvidiaSMITimeout   == 2   \* part_002, nvidiaSMIMetrics:123  2000
\* As in the source (1801 < 2000), the points one age window holds at the
\* 1 s tick interval, historyMaxAge + 1, are fewer than historyMaxPoints.

MaxClock   == 3   \* seconds of monotonic time a behaviour covers
MaxCounter == 3   \* largest value of one cumulative CPU time counter
MaxAdjust  == 2   \* times the wall clock is set during a behaviour
MaxHeap    == 19  \* arrays, maps and pointees allocated during a behaviour

\* The build's runtime.GOOS.
GOOS == "linux"

\* --------------------------------------------------------------- Go values
\* error: <<>> is nil, <<msg>> a non-nil error whose Error() is msg.
Nil == <<>>
Err(msg) == <<msg>>
ErrorOf(e) == e[1]

\* time.Time: <<>> is the zero Time, <<t>> a reading of the monotonic clock.
ZeroTime == <<>>
At(t) == <<t>>
IsZero(t) == t = <<>>

\* now.Sub(t) >= ttl.  Sub of the zero Time saturates at the maximum
\* Duration, which is above every TTL.
SubAtLeast(now, t, ttl) == IF IsZero(t) THEN TRUE ELSE now - t[1] >= ttl

\* Slices keep the difference between nil and empty-but-allocated.
NilSlice == [isNil |-> TRUE, items |-> <<>>]
MkSlice(s) == [isNil |-> FALSE, items |-> s]
\* append([]T(nil), s...): nil when s has no elements.
AppendToNil(s) == IF Len(s.items) = 0 THEN NilSlice ELSE MkSlice(s.items)

\* float64 percentages computed by division are kept as exact fractions
\* <<n, d>> with d > 0 in lowest terms; IEEE rounding is monotonic, so every
\* comparison with 0 and 100 made by the code has the same outcome.
Frac(n, d) ==
    LET RECURSIVE Gcd(_, _)
        Gcd(a, b) == IF b = 0 THEN a ELSE Gcd(b, a % b)
        Abs(a) == IF a < 0 THEN 0 - a ELSE a
        g == Gcd(Abs(n), Abs(d))
        s == IF d < 0 THEN 0 - 1 ELSE 1
    IN <<(s * n) \div g, (s * d) \div g>>
FracZero == <<0, 1>>
FracHundred == <<100, 1>>
FracLess(a, b) == a[1] * b[2] < b[1] * a[2]

\* ------------------------------------------------------------------- types
ZeroCPUStats ==
    [Percent |-> FracZero, Model |-> "", PhysicalCores |-> 0, LogicalCores |-> 0,
     CurrentMHz |-> 0, MaxMHz |-> 0, CurrentPercentOfMax |-> 0,
     TemperatureC |-> Nil, PerformanceCores |-> 0, EfficiencyCores |-> 0,
     PerformanceThreads |-> 0, EfficiencyThreads |-> 0]

ZeroMemoryStats ==
    [TotalBytes |-> 0, UsedBytes |-> 0, UsedPercent |-> 0, SwapTotalBytes |-> 0,
     SwapUsedBytes |-> 0, SwapUsedPercent |-> 0, Modules |-> NilSlice,
     SwapDevices |-> NilSlice]

ZeroSnapshotError == [CPU |-> "", Memory |-> "", Disks |-> "", GPUs |-> "", HostIP |-> ""]

\* ------------------------------------------------------------------- state
VARIABLES
    mu,             \* sync.RWMutex: [writer: BOOLEAN, readers: Nat]
    snapshot,       \* m.snapshot
    history,        \* m.history
    prevTotal, prevIdle, havePrevCPU,
    hostIP, hostIPUpdatedAt, hostIPErr,
    cpuStatic, cpuStaticUpdatedAt, cpuStaticErr,
    cpuDynamic, cpuDynamicUpdatedAt, cpuDynamicErr,
    disksCache, disksUpdatedAt, disksErr,
    gpusCache, gpusUpdatedAt, gpusErr,
    pc,             \* position of Start / of the ticker goroutine
    upd,            \* next step of the update() in flight, "idle" when none
    tick,           \* locals of the update() in flight
    stop,           \* the stop channel is closed
    tickPending,    \* ticker.C (capacity 1) holds a tick
    clock,          \* monotonic clock
    wall,           \* wall clock, as read by UnixMilli
    adjusts,        \* how often the wall clock has been set
    rd,             \* the Snapshot call in flight
    cpuRet,         \* the last sampleCPUPercent call: input, baseline found, return
    lastGood,       \* per family, the value of its last refresh without error
    tickTimes,      \* UpdatedAt of every publish so far, in order
    heap,           \* the objects behind references: backing arrays, maps, pointees
    mref,           \* the references m.snapshot, m.history and m.memoryModules hold
    callers,        \* what Snapshot returned to its callers, as references
    gpuMeta, gpuMetaUpdatedAt,      \* m.gpuMeta, m.gpuMetaUpdatedAt
    diskMeta, diskMetaUpdatedAt,    \* m.diskMeta, m.diskMetaUpdatedAt
    gpusRet,        \* the last sampleGPUs call: what it found and returned
    disksRet,       \* the last sampleDisks call: what it found and returned
    smi,            \* the nvidia-smi run update() is waiting for
    prevProcessTimes, lastProcessSample,    \* m.prevProcessTimes, m.lastProcessSample
    topRet,         \* the last sampleTopProcesses call: what it found and returned
    page,           \* the dashboard: the text of its fields after updateResources
    links,          \* json.Client: c.db.Links
    linksMu,        \* json.Client: c.m, the goroutine holding it or "" for none
    reqs,           \* the SaveLink / DeleteLink call each handler goroutine is in
    files,          \* the files next to the binary: path -> content, absent when unmapped
    cli,            \* the linksserver command in progress and its locals
    made            \* the files the last `update` run past its pending check created

cpuVars == <<prevTotal, prevIdle, havePrevCPU>>
cacheVars == <<hostIP, hostIPUpdatedAt, hostIPErr,
               cpuStatic, cpuStaticUpdatedAt, cpuStaticErr,
               cpuDynamic, cpuDynamicUpdatedAt, cpuDynamicErr,
               disksCache, disksUpdatedAt, disksErr,
               gpusCache, gpusUpdatedAt, gpusErr, lastGood>>
sharedVars == <<mu, snapshot, history, tickTimes>>
runVars == <<pc, upd, tick, stop, tickPending>>
timeVars == <<clock, wall, adjusts>>
refVars == <<heap, mref, callers>>
hwVars == <<gpuMeta, gpuMetaUpdatedAt, diskMeta, diskMetaUpdatedAt, gpusRet, disksRet, smi>>
procVars == <<prevProcessTimes, lastProcessSample, topRet>>
storeVars == <<links, linksMu, reqs>>
cliVars == <<files, cli, made>>
appVars == <<page, storeVars, cliVars>>
monitorVars == <<sharedVars, cpuVars, cacheVars, runVars, timeVars, rd, cpuRet, refVars,
                 hwVars, procVars>>
vars == <<monitorVars, appVars>>

\* ------------------------------------------------- CPU-percent estimator
cpuTimesTotal(t) ==
    t.User + t.System + t.Idle + t.Nice + t.Iowait + t.Irq + t.Softirq
        + t.Steal + t.Guest + t.GuestNice

\* Lines 42-53: the busy percent of two consecutive readings.
cpuUsage_NoUpperClamp(totalDelta, idleDelta) ==
    IF totalDelta <= 0 THEN FracZero
    ELSE LET usage == Frac((totalDelta - idleDelta) * 100, totalDelta)
         IN  IF FracLess(usage, FracZero) THEN FracZero ELSE usage

cpuUsage(totalDelta, idleDelta) ==
    IF totalDelta <= 0 THEN FracZero
    ELSE LET usage == Frac((totalDelta - idleDelta) * 100, totalDelta)
         IN  IF FracLess(usage, FracZero) THEN FracZero
             ELSE IF FracLess(FracHundred, usage) THEN FracHundred
             ELSE usage

\* Lines 36-53: a reading taken when a baseline exists.
nextCPUSample_KeepBaselineOnAnomaly(st, total, idle) ==
    LET totalDelta == total - st.prevTotal
        idleDelta == idle - st.prevIdle
    IN  [usage |-> cpuUsage(totalDelta, idleDelta), err |-> Nil,
         st |-> IF totalDelta <= 0 THEN st
                ELSE [prevTotal |-> total, prevIdle |-> idle, havePrevCPU |-> TRUE]]

nextCPUSample(st, total, idle) ==
    LET totalDelta == total - st.prevTotal
        idleDelta == idle - st.prevIdle
    IN  [usage |-> cpuUsage(totalDelta, idleDelta), err |-> Nil,
         st |-> [prevTotal |-> total, prevIdle |-> idle, havePrevCPU |-> TRUE]]

\* Lines 29-34: the first reading only seeds the baseline.
firstCPUSample_AgainstZeroBaseline(total, idle) ==
    nextCPUSample([prevTotal |-> 0, prevIdle |-> 0, havePrevCPU |-> FALSE], total, idle)

firstCPUSample(total, idle) ==
    [usage |-> FracZero, err |-> Nil,
     st |-> [prevTotal |-> total, prevIdle |-> idle, havePrevCPU |-> TRUE]]

\* sampleCPUPercent with cpu.Times(false) answering `times` ([list, err]);
\* st is [prevTotal, prevIdle, havePrevCPU].  The result carries the
\* returned pair and the baseline the call leaves behind.
sampleCPUPercent_ForgetsBaselineOnFailure(st, times) ==
    IF times.err # Nil \/ Len(times.list) = 0 THEN
        [usage |-> FracZero, err |-> times.err,
         st |-> [prevTotal |-> 0, prevIdle |-> 0, havePrevCPU |-> FALSE]]
    ELSE
        LET t == times.list[1]
            total == cpuTimesTotal(t)
            idle == t.Idle + t.Iowait
        IN  IF ~st.havePrevCPU THEN firstCPUSample(total, idle)
            ELSE nextCPUSample(st, total, idle)

sampleCPUPercent(st, times) ==
    IF times.err # Nil THEN
        [usage |-> FracZero, err |-> times.err, st |-> st]
    ELSE IF Len(times.list) = 0 THEN
        [usage |-> FracZero, err |-> Nil, st |-> st]
    ELSE
        LET t == times.list[1]
            total == cpuTimesTotal(t)
            idle == t.Idle + t.Iowait
        IN  IF ~st.havePrevCPU THEN firstCPUSample(total, idle)
            ELSE nextCPUSample(st, total, idle)

CPUState == [prevTotal |-> prevTotal, prevIdle |-> prevIdle, havePrevCPU |-> havePrevCPU]


\* ---------------------------------------------------------- TTL cache layer
\* A cached family is [val, err, at]; an outcome is what its sampler answers
\* when invoked, [val, err]; `called` tells whether update() invoked it.

\* Lines 216-219: host IP, re-sampled while empty or once the TTL has passed.
refreshHostIP_ByTTLOnly(now, cur, outcome) ==
    IF SubAtLeast(now, cur.at, hostIPTTL)
    THEN [val |-> outcome.val, err |-> outcome.err, at |-> At(now), called |-> 1]
    ELSE [val |-> cur.val, err |-> cur.err, at |-> cur.at, called |-> 0]

refreshHostIP(now, cur, outcome) ==
    IF cur.val = "" \/ SubAtLeast(now, cur.at, hostIPTTL)
    THEN [val |-> outcome.val, err |-> outcome.err, at |-> At(now), called |-> 1]
    ELSE [val |-> cur.val, err |-> cur.err, at |-> cur.at, called |-> 0]

\* Lines 226-229 and 235-238: static and dynamic CPU info.
refreshCPUInfo_KeepStamp(now, cur, outcome, ttl) ==
    IF IsZero(cur.at) \/ SubAtLeast(now, cur.at, ttl)
    THEN [val |-> outcome.val, err |-> outcome.err,
          at |-> IF IsZero(cur.at) THEN At(now) ELSE cur.at, called |-> 1]
    ELSE [val |-> cur.val, err |-> cur.err, at |-> cur.at, called |-> 0]

refreshCPUInfo(now, cur, outcome, ttl) ==
    IF IsZero(cur.at) \/ SubAtLeast(now, cur.at, ttl)
    THEN [val |-> outcome.val, err |-> outcome.err, at |-> At(now), called |-> 1]
    ELSE [val |-> cur.val, err |-> cur.err, at |-> cur.at, called |-> 0]

\* Lines 274-281 and 286-293: disks and GPUs keep the cached list when the
\* sampler answers a nil list together with an error.
refreshList_KeepOldOnError(now, cur, outcome, ttl) ==
    IF IsZero(cur.at) \/ SubAtLeast(now, cur.at, ttl)
    THEN [val |-> IF outcome.err = Nil THEN outcome.val ELSE cur.val,
          err |-> outcome.err, at |-> At(now), called |-> 1]
    ELSE [val |-> cur.val, err |-> cur.err, at |-> cur.at, called |-> 0]

refreshList_StickyError(now, cur, outcome, ttl) ==
    IF IsZero(cur.at) \/ SubAtLeast(now, cur.at, ttl)
    THEN [val |-> IF ~outcome.val.isNil \/ outcome.err = Nil
                  THEN outcome.val ELSE cur.val,
          err |-> IF outcome.err = Nil THEN cur.err ELSE outcome.err,
          at |-> At(now), called |-> 1]
    ELSE [val |-> cur.val, err |-> cur.err, at |-> cur.at, called |-> 0]

refreshList(now, cur, outcome, ttl) ==
    IF IsZero(cur.at) \/ SubAtLeast(now, cur.at, ttl)
    THEN [val |-> IF ~outcome.val.isNil \/ outcome.err = Nil
                  THEN outcome.val ELSE cur.val,
          err |-> outcome.err, at |-> At(now), called |-> 1]
    ELSE [val |-> cur.val, err |-> cur.err, at |-> cur.at, called |-> 0]

\* Lines 231-234.
cpuDynTTL == IF GOOS = "linux" THEN cpuDynamicTTLLinux ELSE cpuDynamicTTLOther

\* Lines 255-267: strings.Join(cpuErrs, "; ") over the non-nil errors.
RECURSIVE joinErrors(_)
joinErrors(es) ==
    IF Len(es) = 0 THEN ""
    ELSE IF Head(es) = Nil THEN joinErrors(Tail(es))
    ELSE LET rest == joinErrors(Tail(es))
         IN  IF rest = "" THEN ErrorOf(Head(es)) ELSE ErrorOf(Head(es)) \o "; " \o rest

\* Lines 298-306: strings.TrimSpace(strings.Join([]string{cur, label: err}, "; ")).
appendCPUError(cur, label, err) ==
    IF err = Nil THEN cur ELSE cur \o "; " \o label \o ErrorOf(err)

errorString(e) == IF e = Nil THEN "" ELSE ErrorOf(e)

\* ------------------------------------------------------------- history ring
\* Lines 334-342: mountpoint -> used percent over the non-empty mountpoints;
\* the nil map (the empty function) when there is none.
RECURSIVE historyDisks(_)
historyDisks(disks) ==
    IF Len(disks) = 0 THEN <<>>
    ELSE LET n == Len(disks)
             d == disks[n]
             before == historyDisks(SubSeq(disks, 1, n - 1))
         IN  IF d.Mountpoint = "" THEN before
             ELSE IF DOMAIN before = {} THEN d.Mountpoint :> d.UsedPercent
             ELSE (d.Mountpoint :> d.UsedPercent) @@ before

\* Lines 328-343: the point of a snapshot.
historyPoint_WithoutDisks(snap) ==
    [Time |-> snap.UpdatedAt, CPU |-> snap.CPU.Percent,
     Mem |-> snap.Memory.UsedPercent, Disks |-> <<>>]

historyPoint(snap) ==
    [Time |-> snap.UpdatedAt, CPU |-> snap.CPU.Percent,
     Mem |-> snap.Memory.UsedPercent, Disks |-> historyDisks(snap.Disks.items)]

\* Lines 346-353: drop the leading points older than the cutoff.
RECURSIVE trimAge_Inclusive(_, _)
trimAge_Inclusive(h, cutoff) ==
    IF Len(h) > 0 /\ Head(h).Time <= cutoff THEN trimAge_Inclusive(Tail(h), cutoff) ELSE h

RECURSIVE trimAge(_, _)
trimAge(h, cutoff) ==
    IF Len(h) > 0 /\ Head(h).Time < cutoff THEN trimAge(Tail(h), cutoff) ELSE h

\* Lines 344-356: append, trim by age, keep the last historyMaxPoints points.
appendHistoryLocked(h, snap) ==
    LET aged == trimAge(Append(h, historyPoint(snap)), snap.UpdatedAt - historyMaxAge)
    IN  IF Len(aged) > historyMaxPoints
        THEN SubSeq(aged, Len(aged) - historyMaxPoints + 1, Len(aged)) ELSE aged

\* Lines 58-74 of part_005: cloneHistory, nil for an empty history.
cloneHistory(src) == IF Len(src) = 0 THEN NilSlice ELSE MkSlice(src)


\* --------------------------------------------------------- sampler outcomes
\* What the platform samplers can answer on a tick.  Each is [val, err].
ZeroTimesStat ==
    [User |-> 0, System |-> 0, Idle |-> 0, Nice |-> 0, Iowait |-> 0, Irq |-> 0,
     Softirq |-> 0, Steal |-> 0, Guest |-> 0, GuestNice |-> 0]

\* cpu.Times(false): an error, no entry, or one entry of cumulative counters.
CPUTimesOutcomes ==
    {[list |-> <<[ZeroTimesStat EXCEPT !.User = u, !.Idle = i, !.Iowait = w]>>,
      err |-> Nil] : u \in 0..MaxCounter, i \in 0..MaxCounter, w \in 0..1}
    \cup {[list |-> <<>>, err |-> Err("cpu times")], [list |-> <<>>, err |-> Nil]}

\* preferredHostIP (resources_hostip.go:5-66): ("", err), ("", nil) or (ip, nil).
HostIPOutcomes ==
    {[val |-> "192.168.1.10", err |-> Nil],
     [val |-> "", err |-> Nil],
     [val |-> "", err |-> Err("route ip+net: no such network interface")]}

\* sampleCPUStaticInfo (part_004:65-94): the fields it could read, with an
\* error naming those it could not.
CPUStaticGood == [ZeroCPUStats EXCEPT !.Model = "Ryzen", !.PhysicalCores = 2, !.LogicalCores = 4]
CPUStaticOutcomes ==
    {[val |-> CPUStaticGood, err |-> Nil],
     [val |-> [CPUStaticGood EXCEPT !.Model = ""], err |-> Err("cpu info: unavailable")]}

\* sampleCPUDynamicInfo (part_004:96-): frequency fields, or zero with an error.
CPUDynamicGood == [ZeroCPUStats EXCEPT !.CurrentMHz = 1800, !.MaxMHz = 3600, !.CurrentPercentOfMax = 50]
CPUDynamicOutcomes ==
    {[val |-> CPUDynamicGood, err |-> Nil],
     [val |-> ZeroCPUStats, err |-> Err("cpu freq: unavailable")]}

\* sampleMemory (resources_memory.go:14-56).
MemoryGood == [ZeroMemoryStats EXCEPT !.TotalBytes = 8, !.UsedBytes = 2, !.UsedPercent = 25]
MemoryOutcomes ==
    {[val |-> MemoryGood, err |-> Nil],
     [val |-> ZeroMemoryStats, err |-> Err("meminfo: unreadable")]}

\* sampleDisks (part_003:92-227): (nil, err) when the partition table cannot
\* be read (lines 93-96), else the list it built (line 226).  The third
\* answer, the list together with a "disk metadata" error (lines 223-225),
\* depends on the metadata getDiskMeta has cached and is not among the
\* outcomes here.
Disk(mp, pct, model) ==
    [Mountpoint |-> mp, Device |-> "/dev/sda1", Filesystem |-> "ext4",
     DriveType |-> IF model = "" THEN "" ELSE "SSD", Model |-> model,
     TotalBytes |-> 100, UsedBytes |-> pct, UsedPercent |-> pct]
DisksOutcomes ==
    {[val |-> MkSlice(<<Disk("/", 40, "Samsung")>>), err |-> Nil],
     [val |-> NilSlice, err |-> Err("partitions: unreadable")]}

\* sampleGPUs (part_002:998-1014): (nil, err), (nil, nil) or (list, nil).
GPUsOutcomes ==
    {[val |-> MkSlice(<<[Index |-> 0, Name |-> "RTX", Vendor |-> "NVIDIA", Driver |-> "nvidia",
                         UtilizationPercent |-> <<7>>, MemoryTotalBytes |-> <<8>>,
                         MemoryUsedBytes |-> <<1>>, TemperatureC |-> <<50>>]>>),
      err |-> Nil],
     [val |-> NilSlice, err |-> Nil],
     [val |-> NilSlice, err |-> Err("gpu: ghw=failed; nvidia-smi=not found")]}

\* sampleProcessCount (resources_process.go:12-18).
ProcessCountOutcomes ==
    {[val |-> 120, err |-> Nil], [val |-> 0, err |-> Err("pids: unreadable")]}

\* sampleTopProcesses (resources_process.go:20-102): the two samples or an error.
ProcessSample(pid) ==
    [PID |-> pid, Name |-> "proc", CPUPercent |-> 0, MemoryBytes |-> 1, MemoryPercent |-> 12]
TopProcessesOutcomes ==
    {[cpu |-> Nil, mem |-> <<ProcessSample(1)>>, err |-> Nil],
     [cpu |-> Nil, mem |-> Nil, err |-> Err("processes: unreadable")]}


\* Every sampler healthy.
HealthyEnv ==
    [hostIP |-> [val |-> "192.168.1.10", err |-> Nil],
     cpuTimes |-> [list |-> <<[ZeroTimesStat EXCEPT !.User = 1, !.Idle = 1]>>, err |-> Nil],
     cpuStatic |-> [val |-> CPUStaticGood, err |-> Nil],
     cpuDynamic |-> [val |-> CPUDynamicGood, err |-> Nil],
     mem |-> [val |-> MemoryGood, err |-> Nil],
     disks |-> [val |-> MkSlice(<<Disk("/", 40, "Samsung")>>), err |-> Nil],
     gpus |-> [val |-> NilSlice, err |-> Nil],
     procs |-> [val |-> 120, err |-> Nil],
     top |-> [cpu |-> Nil, mem |-> <<ProcessSample(1)>>, err |-> Nil]]

Families == {"hostIP", "cpuStatic", "cpuDynamic", "disks", "gpus"}

\* ------------------------------------------------------------ initial state
\* NewResourceMonitor (resources_process.go:172-181).
ZeroSnapshot ==
    [HostIP |-> "", UpdatedAt |-> 0, CPU |-> ZeroCPUStats, Memory |-> ZeroMemoryStats,
     Disks |-> NilSlice, GPUs |-> NilSlice, Processes |-> 0, TopCPU |-> Nil,
     TopMemory |-> Nil, History |-> NilSlice, Errors |-> ZeroSnapshotError]

NoTick ==
    [now |-> 0, env |-> HealthyEnv, calls |-> [f \in Families |-> 0],
     before |-> [hostIP |-> [val |-> "", err |-> Nil, at |-> ZeroTime],
                 cpuStatic |-> [val |-> ZeroCPUStats, err |-> Nil, at |-> ZeroTime],
                 cpuDynamic |-> [val |-> ZeroCPUStats, err |-> Nil, at |-> ZeroTime],
                 disks |-> [val |-> NilSlice, err |-> Nil, at |-> ZeroTime],
                 gpus |-> [val |-> NilSlice, err |-> Nil, at |-> ZeroTime]],
     cpuPercent |-> FracZero, cpuPercentErr |-> Nil,
     memStats |-> ZeroMemoryStats, memErr |-> Nil, snap |-> ZeroSnapshot]


NoRead == [pc |-> "idle", includeHistory |-> FALSE, snap |-> ZeroSnapshot]

\* m.diskMeta: a map mountpoint -> diskMeta, nil until the first inventory.
NilMap == [isNil |-> TRUE, m |-> <<>>]

\* No nvidia-smi run awaited.
NoSMI == [now |-> 0, wall |-> 0, deadline |-> 0, ghw |-> [cards |-> <<>>, err |-> Nil]]

\* The HTTP handler goroutines that call the link store, none in a call.
Handlers == {"h1", "h2"}
NoRequest == [pc |-> "idle", op |-> "", link |-> [Url |-> "", Title |-> ""], idx |-> 0]

\* The path of the installed linksserver binary, and no command running.
exePath == [name |-> "linksserver", ts |-> 0]
NoCommand ==
    LET none == [name |-> "", ts |-> 0]
    IN  [name |-> "", pc |-> "done", now |-> 0, cur |-> "", latest |-> "", k |-> 0,
         st |-> [TargetPath |-> none, BackupPath |-> none, StagePath |-> none,
                 DBPath |-> none, DBBackupPath |-> none, From |-> "", To |-> ""],
         result |-> Nil, out |-> ""]

\* The nil slice as a reference: no backing array (address 0), length 0.
NilHdr == [arr |-> 0, len |-> 0]

\* ResourcesSnapshot (resources_types.go:3-15) with its slices and pointers
\* by reference: Disks, GPUs, Memory.Modules, TopCPU, TopMemory, History.
\* GPUStats elements are kept as stored; their optional fields are not
\* followed, and SpecRefs samples no GPU.
\* The references of a new monitor: all nil, memory modules not loaded.
ZeroRefs ==
    [snapshot |-> [ZeroSnapshot EXCEPT !.Disks = NilHdr, !.GPUs = NilHdr,
                                       !.Memory.Modules = NilHdr, !.TopCPU = 0,
                                       !.TopMemory = 0, !.History = NilHdr],
     history |-> NilHdr, disksCache |-> NilHdr, gpusCache |-> NilHdr,
     memoryModules |-> NilHdr, memoryModulesLoaded |-> FALSE]

\* Two callers of Snapshot: one writes to what it was given, one only holds it.
Callers == {"writer", "holder"}

Init ==
    /\ mu = [writer |-> FALSE, readers |-> 0]
    /\ snapshot = ZeroSnapshot
    /\ history = <<>>
    /\ prevTotal = 0 /\ prevIdle = 0 /\ havePrevCPU = FALSE
    /\ hostIP = "" /\ hostIPUpdatedAt = ZeroTime /\ hostIPErr = Nil
    /\ cpuStatic = ZeroCPUStats /\ cpuStaticUpdatedAt = ZeroTime /\ cpuStaticErr = Nil
    /\ cpuDynamic = ZeroCPUStats /\ cpuDynamicUpdatedAt = ZeroTime /\ cpuDynamicErr = Nil
    /\ disksCache = NilSlice /\ disksUpdatedAt = ZeroTime /\ disksErr = Nil
    /\ gpusCache = NilSlice /\ gpusUpdatedAt = ZeroTime /\ gpusErr = Nil
    /\ pc = "new" /\ upd = "idle" /\ tick = NoTick
    /\ stop = FALSE /\ tickPending = FALSE
    /\ clock = 0 /\ wall = 1 /\ adjusts = 0
    /\ rd = NoRead
    /\ cpuRet = [called |-> FALSE, times |-> [list |-> <<>>, err |-> Nil],
                 before |-> [prevTotal |-> 0, prevIdle |-> 0, havePrevCPU |-> FALSE],
                 usage |-> FracZero, err |-> Nil]
    /\ lastGood = [f \in Families |-> <<>>]
    /\ tickTimes = <<>>
    /\ heap = <<>> /\ mref = ZeroRefs /\ callers = [c \in Callers |-> Nil]
    /\ gpuMeta = NilSlice /\ gpuMetaUpdatedAt = ZeroTime
    /\ diskMeta = NilMap /\ diskMetaUpdatedAt = ZeroTime
    /\ gpusRet = [called |-> FALSE, base |-> <<>>, ghwErr |-> Nil, rows |-> <<>>,
                  smiErr |-> Nil, val |-> NilSlice, err |-> Nil]
    /\ disksRet = [called |-> FALSE, parts |-> [list |-> <<>>, err |-> Nil], failing |-> {},
                   meta |-> NilMap, metaErr |-> Nil, selected |-> {}, val |-> NilSlice,
                   err |-> Nil]
    /\ smi = NoSMI
    /\ prevProcessTimes = <<>> /\ lastProcessSample = ZeroTime
    /\ topRet = [called |-> FALSE, procs |-> <<>>, prev |-> <<>>, last |-> ZeroTime,
                 now |-> 0, cores |-> 0, memTotal |-> 0, cpu |-> Nil, mem |-> Nil, err |-> Nil]
    /\ page = LET dash == [kind |-> "-", n |-> 0, unit |-> ""]
              IN  [status |-> "-", hostIp |-> "-", cpuPercent |-> dash, processCount |-> dash,
                   memUsed |-> dash, memTotal |-> dash, memPercent |-> dash,
                   received |-> FALSE, errors |-> ZeroSnapshotError]
    /\ links = <<>> /\ linksMu = "" /\ reqs = [g \in Handlers |-> NoRequest]
    /\ files = [q \in {exePath} |-> [kind |-> "binary", build |-> "v1"]]
    /\ cli = NoCommand /\ made = {}


\* ----------------------------------------------------------------- update()
\* Lines 308-319: the snapshot of the tick.
assembleSnapshot_DropOnDiskError(ip, updatedAt, cpuStats, memStats, disks, gpus, procCount, top, errs) ==
    [HostIP |-> ip, UpdatedAt |-> updatedAt,
     CPU |-> IF errs.Disks = "" THEN cpuStats ELSE ZeroCPUStats,
     Memory |-> IF errs.Disks = "" THEN memStats ELSE ZeroMemoryStats,
     Disks |-> disks, GPUs |-> gpus,
     Processes |-> procCount, TopCPU |-> top.cpu, TopMemory |-> top.mem,
     History |-> NilSlice, Errors |-> errs]

assembleSnapshot(ip, updatedAt, cpuStats, memStats, disks, gpus, procCount, top, errs) ==
    [HostIP |-> ip, UpdatedAt |-> updatedAt, CPU |-> cpuStats, Memory |-> memStats,
     Disks |-> disks, GPUs |-> gpus,
     Processes |-> procCount, TopCPU |-> top.cpu, TopMemory |-> top.mem,
     History |-> NilSlice, Errors |-> errs]

\* The caches as update() finds them.
Caches ==
    [hostIP |-> [val |-> hostIP, err |-> hostIPErr, at |-> hostIPUpdatedAt],
     cpuStatic |-> [val |-> cpuStatic, err |-> cpuStaticErr, at |-> cpuStaticUpdatedAt],
     cpuDynamic |-> [val |-> cpuDynamic, err |-> cpuDynamicErr, at |-> cpuDynamicUpdatedAt],
     disks |-> [val |-> disksCache, err |-> disksErr, at |-> disksUpdatedAt],
     gpus |-> [val |-> gpusCache, err |-> gpusErr, at |-> gpusUpdatedAt]]

\* Bookkeeping for lastGood: r is a family's refresh result.
goodAfter(old, r) == IF r.called = 1 /\ r.err = Nil THEN <<r.val>> ELSE old

\* Lines 212-319: one pass over the families, building the snapshot.  The
\* pass touches only state owned by the ticking task, so it is one step; env
\* holds what each sampler answers if this pass invokes it.
UpdateSampleAt(env, now, nowWall) ==
    /\ LET h == refreshHostIP(now, [val |-> hostIP, err |-> hostIPErr, at |-> hostIPUpdatedAt],
                              env.hostIP)
           cpu == sampleCPUPercent(CPUState, env.cpuTimes)
           cs == refreshCPUInfo(now, [val |-> cpuStatic, err |-> cpuStaticErr,
                                      at |-> cpuStaticUpdatedAt], env.cpuStatic, cpuStaticTTL)
           cd == refreshCPUInfo(now, [val |-> cpuDynamic, err |-> cpuDynamicErr,
                                      at |-> cpuDynamicUpdatedAt], env.cpuDynamic, cpuDynTTL)
           cpuStats ==
               [Percent |-> cpu.usage, Model |-> cs.val.Model,
                PhysicalCores |-> cs.val.PhysicalCores, LogicalCores |-> cs.val.LogicalCores,
                CurrentMHz |-> cd.val.CurrentMHz, MaxMHz |-> cd.val.MaxMHz,
                CurrentPercentOfMax |-> cd.val.CurrentPercentOfMax,
                TemperatureC |-> cd.val.TemperatureC,
                PerformanceCores |-> cd.val.PerformanceCores,
                EfficiencyCores |-> cd.val.EfficiencyCores,
                PerformanceThreads |-> cd.val.PerformanceThreads,
                EfficiencyThreads |-> cd.val.EfficiencyThreads]
           d == refreshList(now, [val |-> disksCache, err |-> disksErr, at |-> disksUpdatedAt],
                            env.disks, disksSampleTTL)
           g == refreshList(now, [val |-> gpusCache, err |-> gpusErr, at |-> gpusUpdatedAt],
                            env.gpus, gpusSampleTTL)
           errsCPU ==
               appendCPUError(
                   appendCPUError(joinErrors(<<cpu.err, cs.err, cd.err>>),
                                  "processes: ", env.procs.err),
                   "top processes: ", env.top.err)
           errs ==
               [CPU |-> errsCPU, Memory |-> errorString(env.mem.err),
                Disks |-> errorString(d.err), GPUs |-> errorString(g.err),
                HostIP |-> errorString(h.err)]
           snap == assembleSnapshot(h.val, nowWall, cpuStats, env.mem.val, d.val, g.val,
                                    env.procs.val, env.top, errs)
       IN  /\ hostIP' = h.val /\ hostIPErr' = h.err /\ hostIPUpdatedAt' = h.at
           /\ prevTotal' = cpu.st.prevTotal /\ prevIdle' = cpu.st.prevIdle
           /\ havePrevCPU' = cpu.st.havePrevCPU
           /\ cpuRet' = [called |-> TRUE, times |-> env.cpuTimes, before |-> CPUState,
                         usage |-> cpu.usage, err |-> cpu.err]
           /\ lastGood' =
                  [f \in Families |->
                      CASE f = "hostIP" -> goodAfter(lastGood[f], h)
                        [] f = "cpuStatic" -> goodAfter(lastGood[f], cs)
                        [] f = "cpuDynamic" -> goodAfter(lastGood[f], cd)
                        [] f = "disks" -> goodAfter(lastGood[f], d)
                        [] f = "gpus" -> goodAfter(lastGood[f], g)]
           /\ cpuStatic' = cs.val /\ cpuStaticErr' = cs.err /\ cpuStaticUpdatedAt' = cs.at
           /\ cpuDynamic' = cd.val /\ cpuDynamicErr' = cd.err /\ cpuDynamicUpdatedAt' = cd.at
           /\ disksCache' = d.val /\ disksErr' = d.err /\ disksUpdatedAt' = d.at
           /\ gpusCache' = g.val /\ gpusErr' = g.err /\ gpusUpdatedAt' = g.at
           /\ tick' = [now |-> now, env |-> env, before |-> Caches,
                       calls |-> [f \in Families |->
                                     CASE f = "hostIP" -> h.called
                                       [] f = "cpuStatic" -> cs.called
                                       [] f = "cpuDynamic" -> cd.called
                                       [] f = "disks" -> d.called
                                       [] f = "gpus" -> g.called],
                       cpuPercent |-> cpu.usage, cpuPercentErr |-> cpu.err,
                       memStats |-> env.mem.val, memErr |-> env.mem.err, snap |-> snap]
    /\ upd' = "lock"
    /\ UNCHANGED <<sharedVars, pc, stop, tickPending, timeVars, rd>>
    /\ UNCHANGED <<refVars, appVars>>

\* update() with every sampler's answer given by env: now := time.Now() of
\* line 217 and the samplers run in one step.
UpdateSample(env) ==
    /\ upd = "sample"
    /\ UpdateSampleAt(env, clock, wall)
    /\ UNCHANGED <<hwVars, procVars>>

\* Line 321: m.mu.Lock() is granted when nobody holds the mutex.
UpdateLock ==
    /\ upd = "lock"
    /\ ~mu.writer /\ mu.readers = 0
    /\ mu' = [mu EXCEPT !.writer = TRUE]
    /\ upd' = "store"
    /\ UNCHANGED <<snapshot, history, tickTimes, cpuVars, cacheVars, pc, tick, stop,
                   tickPending, timeVars, rd, cpuRet>>
    /\ UNCHANGED <<refVars, hwVars, procVars, appVars>>

\* Line 322: m.snapshot = snap.
UpdateStore_OnlyWithoutErrors ==
    /\ upd = "store"
    /\ tick.snap.Errors = ZeroSnapshotError
    /\ snapshot' = tick.snap
    /\ upd' = "append"
    /\ UNCHANGED <<mu, history, tickTimes, cpuVars, cacheVars, pc, tick, stop,
                   tickPending, timeVars, rd, cpuRet>>
    /\ UNCHANGED <<refVars, hwVars, procVars, appVars>>

UpdateStore ==
    /\ upd = "store"
    /\ snapshot' = tick.snap
    /\ upd' = "append"
    /\ UNCHANGED <<mu, history, tickTimes, cpuVars, cacheVars, pc, tick, stop,
                   tickPending, timeVars, rd, cpuRet>>
    /\ UNCHANGED <<refVars, hwVars, procVars, appVars>>

\* Line 323: m.appendHistoryLocked(snap).
UpdateAppend ==
    /\ upd = "append"
    /\ history' = appendHistoryLocked(history, tick.snap)
    /\ tickTimes' = Append(tickTimes, tick.snap.UpdatedAt)
    /\ upd' = "unlock"
    /\ UNCHANGED <<mu, snapshot, cpuVars, cacheVars, pc, tick, stop,
                   tickPending, timeVars, rd, cpuRet>>
    /\ UNCHANGED <<refVars, hwVars, procVars, appVars>>

\* Line 324: m.mu.Unlock(); update() returns to Start or to the ticker loop.
UpdateUnlock ==
    /\ upd = "unlock"
    /\ mu' = [mu EXCEPT !.writer = FALSE]
    /\ upd' = "idle"
    /\ tick' = NoTick
    /\ pc' = IF pc = "start_update" THEN "start_spawn" ELSE "select"
    /\ UNCHANGED <<snapshot, history, tickTimes, cpuVars, cacheVars, stop,
                   tickPending, timeVars, rd, cpuRet>>
    /\ UNCHANGED <<refVars, hwVars, procVars, appVars>>

\* ------------------------------------------------------------------ Start()
StartCall_WithoutUpdate ==
    /\ pc = "new"
    /\ pc' = "start_spawn"
    /\ UNCHANGED <<sharedVars, cpuVars, cacheVars, upd, tick, stop, tickPending, timeVars,
                   rd, cpuRet>>
    /\ UNCHANGED <<refVars, hwVars, procVars, appVars>>

StartCall_TickerFirst ==
    /\ pc = "new"
    /\ pc' = "select"
    /\ upd' = "sample"
    /\ UNCHANGED <<sharedVars, cpuVars, cacheVars, tick, stop, tickPending, timeVars,
                   rd, cpuRet>>
    /\ UNCHANGED <<refVars, hwVars, procVars, appVars>>

\* Line 184: Start runs the first update() itself.
StartCall ==
    /\ pc = "new"
    /\ pc' = "start_update"
    /\ upd' = "sample"
    /\ UNCHANGED <<sharedVars, cpuVars, cacheVars, tick, stop, tickPending, timeVars,
                   rd, cpuRet>>
    /\ UNCHANGED <<refVars, hwVars, procVars, appVars>>

\* Lines 185-197: the ticker is created, the goroutine started, Start returns.
StartSpawn ==
    /\ pc = "start_spawn"
    /\ pc' = "select"
    /\ UNCHANGED <<sharedVars, cpuVars, cacheVars, upd, tick, stop, tickPending,
                   timeVars, rd, cpuRet>>
    /\ UNCHANGED <<refVars, hwVars, procVars, appVars>>

\* Lines 188-194: the select.  pc = "select" is the goroutine about to
\* execute it, pc = "parked" the goroutine blocked in it because neither
\* channel was ready.  A parked goroutine is woken by the first channel
\* operation that reaches it, and that operation fixes the case it takes.

\* Neither channel is ready: the goroutine blocks.
LoopPark ==
    /\ pc = "select"
    /\ ~stop /\ ~tickPending
    /\ pc' = "parked"
    /\ UNCHANGED <<sharedVars, cpuVars, cacheVars, upd, tick, stop, tickPending,
                   timeVars, rd, cpuRet>>
    /\ UNCHANGED <<refVars, hwVars, procVars, appVars>>

\* Lines 190-191: the stop case; the deferred ticker.Stop() of line 187.
LoopStop ==
    /\ pc = "select"
    /\ stop
    /\ pc' = "done"
    /\ UNCHANGED <<sharedVars, cpuVars, cacheVars, upd, tick, stop, tickPending,
                   timeVars, rd, cpuRet>>
    /\ UNCHANGED <<refVars, hwVars, procVars, appVars>>

\* Lines 192-193: the tick case.  When both channels are ready the select
\* chooses either.
LoopTick ==
    /\ pc = "select"
    /\ tickPending
    /\ tickPending' = FALSE
    /\ pc' = "tick_update"
    /\ upd' = "sample"
    /\ UNCHANGED <<sharedVars, cpuVars, cacheVars, tick, stop, timeVars, rd, cpuRet>>
    /\ UNCHANGED <<refVars, hwVars, procVars, appVars>>

\* The caller closes the stop channel; a parked goroutine takes the stop
\* case and returns.
RaiseStop ==
    /\ ~stop
    /\ stop' = TRUE
    /\ pc' = IF pc = "parked" THEN "done" ELSE pc
    /\ UNCHANGED <<sharedVars, cpuVars, cacheVars, upd, tick, tickPending,
                   timeVars, rd, cpuRet>>
    /\ UNCHANGED <<refVars, hwVars, procVars, appVars>>

\* ------------------------------------------------------------------- clocks
\* One second passes.  A live ticker (line 185, 1 s period) sends a tick: a
\* parked goroutine receives it and starts update(); otherwise it goes into
\* ticker.C, whose single slot drops it when still full.
Tock ==
    /\ clock < MaxClock
    /\ clock' = clock + 1
    /\ wall' = wall + 1
    /\ adjusts' = adjusts
    /\ IF pc = "parked"
       THEN pc' = "tick_update" /\ upd' = "sample" /\ tickPending' = tickPending
       ELSE /\ tickPending' = IF pc \in {"select", "parked", "tick_update"} THEN TRUE ELSE tickPending
            /\ pc' = pc /\ upd' = upd
    /\ UNCHANGED <<sharedVars, cpuVars, cacheVars, tick, stop, rd, cpuRet>>
    /\ UNCHANGED <<refVars, hwVars, procVars, appVars>>

\* The wall clock is set (NTP step, operator); the monotonic clock is not.
AdjustWallClock ==
    /\ adjusts < MaxAdjust
    /\ adjusts' = adjusts + 1
    /\ \E w \in 1..(MaxClock + 1) : w # wall /\ wall' = w
    /\ UNCHANGED <<sharedVars, cpuVars, cacheVars, runVars, clock, rd, cpuRet>>
    /\ UNCHANGED <<refVars, hwVars, procVars, appVars>>

\* --------------------------------------------------------------- Snapshot()
\* Line 200: m.mu.RLock() is granted while no writer holds the mutex.
canRLock_NoExclusion == TRUE

canRLock == ~mu.writer

SnapshotCall(includeHistory) ==
    /\ rd.pc = "idle"
    /\ canRLock
    /\ mu' = [mu EXCEPT !.readers = @ + 1]
    /\ rd' = [pc |-> "locked", includeHistory |-> includeHistory, snap |-> ZeroSnapshot]
    /\ UNCHANGED <<snapshot, history, tickTimes, cpuVars, cacheVars, runVars, timeVars, cpuRet>>
    /\ UNCHANGED <<refVars, hwVars, procVars, appVars>>

\* Line 203: snap := m.snapshot.
SnapshotCopy ==
    /\ rd.pc = "locked"
    /\ rd' = [rd EXCEPT !.pc = "copied", !.snap = snapshot]
    /\ UNCHANGED <<sharedVars, cpuVars, cacheVars, runVars, timeVars, cpuRet>>
    /\ UNCHANGED <<refVars, hwVars, procVars, appVars>>

SnapshotCopyLists_FromCache ==
    /\ rd.pc = "copied"
    /\ rd' = [rd EXCEPT !.pc = "lists",
                        !.snap.Disks = AppendToNil(disksCache),
                        !.snap.GPUs = AppendToNil(gpusCache)]
    /\ UNCHANGED <<sharedVars, cpuVars, cacheVars, runVars, timeVars, cpuRet>>
    /\ UNCHANGED <<refVars, hwVars, procVars, appVars>>

\* Lines 204-205: fresh backing arrays for Disks and GPUs.
SnapshotCopyLists ==
    /\ rd.pc = "copied"
    /\ rd' = [rd EXCEPT !.pc = "lists",
                        !.snap.Disks = AppendToNil(snapshot.Disks),
                        !.snap.GPUs = AppendToNil(snapshot.GPUs)]
    /\ UNCHANGED <<sharedVars, cpuVars, cacheVars, runVars, timeVars, cpuRet>>
    /\ UNCHANGED <<refVars, hwVars, procVars, appVars>>

\* Lines 206-208.
SnapshotHistory ==
    /\ rd.pc = "lists"
    /\ rd' = [rd EXCEPT !.pc = "return",
                        !.snap.History = IF rd.includeHistory THEN cloneHistory(history)
                                         ELSE rd.snap.History]
    /\ UNCHANGED <<sharedVars, cpuVars, cacheVars, runVars, timeVars, cpuRet>>
    /\ UNCHANGED <<refVars, hwVars, procVars, appVars>>

\* Line 209 and the deferred RUnlock of line 201.
SnapshotReturn ==
    /\ rd.pc = "return"
    /\ mu' = [mu EXCEPT !.readers = @ - 1]
    /\ rd' = NoRead
    /\ UNCHANGED <<snapshot, history, tickTimes, cpuVars, cacheVars, runVars, timeVars, cpuRet>>
    /\ UNCHANGED <<refVars, hwVars, procVars, appVars>>

\* sampleCPUPercent called on its own (part_004:16-54).
SampleCPUPercentCall(times) ==
    /\ LET r == sampleCPUPercent(CPUState, times)
       IN  /\ prevTotal' = r.st.prevTotal /\ prevIdle' = r.st.prevIdle
           /\ havePrevCPU' = r.st.havePrevCPU
           /\ cpuRet' = [called |-> TRUE, times |-> times, before |-> CPUState,
                         usage |-> r.usage, err |-> r.err]
    /\ UNCHANGED <<sharedVars, cacheVars, runVars, timeVars, rd>>
    /\ UNCHANGED <<refVars, hwVars, procVars, appVars>>

\* ------------------------------------------------------------ specifications
\* The engine and a concurrent Snapshot caller, the disk sampler free to fail.
Next ==
    \/ StartCall
    \/ \E dk \in DisksOutcomes : UpdateSample([HealthyEnv EXCEPT !.disks = dk])
    \/ UpdateLock \/ UpdateStore \/ UpdateAppend \/ UpdateUnlock
    \/ StartSpawn
    \/ LoopPark
    \/ LoopTick
    \/ Tock
    \/ \E includeHistory \in BOOLEAN : SnapshotCall(includeHistory)
    \/ SnapshotCopy \/ SnapshotCopyLists \/ SnapshotHistory \/ SnapshotReturn

Spec == Init /\ [][Next]_vars

\* The engine while the wall clock is being set.
NextClock ==
    \/ StartCall
    \/ UpdateSample(HealthyEnv)
    \/ UpdateLock \/ UpdateStore \/ UpdateAppend \/ UpdateUnlock
    \/ StartSpawn
    \/ LoopPark
    \/ LoopTick
    \/ Tock
    \/ AdjustWallClock

SpecClock == Init /\ [][NextClock]_vars

\* The engine and its stop signal.
NextStop ==
    \/ StartCall
    \/ \E dk \in DisksOutcomes : UpdateSample([HealthyEnv EXCEPT !.disks = dk])
    \/ UpdateLock \/ UpdateStore \/ UpdateAppend \/ UpdateUnlock
    \/ StartSpawn
    \/ LoopPark
    \/ LoopStop
    \/ LoopTick
    \/ RaiseStop
    \/ Tock

SpecStop == Init /\ [][NextStop]_vars

\* The ticking task alone, every family's sampler free to fail.
NextCache ==
    \/ StartCall
    \/ \E env \in
             {[HealthyEnv EXCEPT !.hostIP = ip] : ip \in HostIPOutcomes}
             \cup {[HealthyEnv EXCEPT !.cpuStatic = cs] : cs \in CPUStaticOutcomes}
             \cup {[HealthyEnv EXCEPT !.cpuDynamic = cd] : cd \in CPUDynamicOutcomes}
             \cup {[HealthyEnv EXCEPT !.mem = mm] : mm \in MemoryOutcomes}
             \cup {[HealthyEnv EXCEPT !.disks = dk, !.cpuTimes = ct] :
             dk \in DisksOutcomes, ct \in {HealthyEnv.cpuTimes,
             [list |-> <<[ZeroTimesStat EXCEPT !.User = 3, !.Idle = 2]>>,
             err |-> Nil]}}
             \cup {[HealthyEnv EXCEPT !.gpus = gp] : gp \in GPUsOutcomes} :
          UpdateSample(env)
    \/ UpdateLock \/ UpdateStore \/ UpdateAppend \/ UpdateUnlock
    \/ StartSpawn
    \/ LoopPark
    \/ LoopTick
    \/ Tock

SpecCache == Init /\ [][NextCache]_vars

\* The ticking task with the process scans and the CPU counters free to fail.
NextErrors ==
    \/ StartCall
    \/ \E env \in
             {[HealthyEnv EXCEPT !.procs = p, !.top = t, !.cpuTimes = ct] :
             p \in ProcessCountOutcomes, t \in TopProcessesOutcomes,
             ct \in {HealthyEnv.cpuTimes, [list |-> <<>>, err |-> Err("cpu times")]}}
             \cup {[HealthyEnv EXCEPT !.mem = mm] : mm \in MemoryOutcomes}
             \cup {[HealthyEnv EXCEPT !.disks = dk] : dk \in DisksOutcomes} :
          UpdateSample(env)
    \/ UpdateLock \/ UpdateStore \/ UpdateAppend \/ UpdateUnlock
    \/ StartSpawn
    \/ LoopPark
    \/ LoopTick
    \/ Tock

SpecErrors == Init /\ [][NextErrors]_vars

\* The ticking task until the caller stops it, with failing samplers in
\* every combination of three groups: the TTL-cached lists and the host
\* address, the CPU counters and the memory, the two process scans.  A
\* sampler of a failing group returns its error.
EnvFailing ==
    LET failing(o) == o.err # Nil
        pick(outcomes, fail) == CHOOSE o \in outcomes : failing(o) = fail
    IN  {[HealthyEnv EXCEPT
            !.hostIP = pick(HostIPOutcomes, lists), !.disks = pick(DisksOutcomes, lists),
            !.gpus = pick({o \in GPUsOutcomes : o.val.isNil}, lists),
            !.cpuTimes = IF counters THEN [list |-> <<>>, err |-> Err("cpu times")] ELSE @,
            !.mem = pick(MemoryOutcomes, counters),
            !.procs = pick(ProcessCountOutcomes, scans),
            !.top = pick(TopProcessesOutcomes, scans)] :
         lists \in BOOLEAN, counters \in BOOLEAN, scans \in BOOLEAN}

NextLive ==
    \/ StartCall
    \/ \E env \in EnvFailing : UpdateSample(env)
    \/ UpdateLock \/ UpdateStore \/ UpdateAppend \/ UpdateUnlock
    \/ StartSpawn
    \/ LoopPark
    \/ LoopStop
    \/ LoopTick
    \/ RaiseStop
    \/ Tock

\* update() is straight-line code on one goroutine: a step of it that can
\* be taken is taken.
SpecLive ==
    /\ Init /\ [][NextLive]_vars
    /\ WF_vars((\E env \in EnvFailing : UpdateSample(env))
                   \/ UpdateLock \/ UpdateStore \/ UpdateAppend \/ UpdateUnlock)

\* The CPU-percent estimator over every sequence of counter readings.
NextCPU == \E times \in CPUTimesOutcomes : SampleCPUPercentCall(times)

SpecCPU == Init /\ [][NextCPU]_vars


\* ------------------------------------------------------- reference level
\* The specifications above follow values.  Here the same code is followed
\* with its references: heap[a] is the object at address a (0 is nil), a
\* slice is the header [arr, len] over a backing array whose length is its
\* capacity, a map and a pointee are objects of their own.
\* An array is [items |-> ...], a map [m |-> ...], a pointee [v |-> ...];
\* make / new / a composite literal appends the object to the heap, so its
\* address is Len(h) + 1 for the heap h before.

\* What a reference stands for: the values the specifications above carry.
\* A HistoryPoint holds its Disks map by reference (0 for a nil map).
DerefPoints(h, hdr) ==
    IF hdr.arr = 0 THEN <<>>
    ELSE [i \in 1..hdr.len |->
            LET p == h[hdr.arr].items[i]
            IN  [p EXCEPT !.Disks = IF p.Disks = 0 THEN <<>> ELSE h[p.Disks].m]]

\* The elements s[1..len] of a slice, as stored.
Elems(h, hdr) == IF hdr.arr = 0 THEN <<>> ELSE SubSeq(h[hdr.arr].items, 1, hdr.len)

\* append([]T(nil), elems...): a fresh backing array, nil for no elements.
appendToNilRefs(h, elems) ==
    IF Len(elems) = 0 THEN [heap |-> h, hdr |-> NilHdr]
    ELSE [heap |-> Append(h, [items |-> elems]), hdr |-> [arr |-> (Len(h) + 1), len |-> Len(elems)]]

\* append(s, x): in place when the backing array has room, else into a
\* fresh array grown by `spare` slots beyond the new length.
appendRefs(h, hdr, x, zero, spare) ==
    IF hdr.arr # 0 /\ hdr.len < Len(h[hdr.arr].items)
    THEN [heap |-> [h EXCEPT ![hdr.arr].items[hdr.len + 1] = x],
          hdr |-> [hdr EXCEPT !.len = @ + 1]]
    ELSE [heap |-> Append(h, [items |-> Elems(h, hdr) \o <<x>> \o [i \in 1..spare |-> zero]]),
          hdr |-> [arr |-> (Len(h) + 1), len |-> hdr.len + 1]]

\* appendHistoryLocked (resources_process.go:327-357) on references; trim
\* is the number of leading points below the cutoff (lines 346-349).
appendHistoryLockedRefs(h, hdr, snap, spare) ==
    LET RECURSIVE trimLeading(_, _)
        trimLeading(points, cutoff) ==
            IF Len(points) > 0 /\ Head(points).Time < cutoff
            THEN 1 + trimLeading(Tail(points), cutoff) ELSE 0
        dm == historyDisks(snap.Disks.items)
        h1 == IF DOMAIN dm = {} THEN h ELSE Append(h, [m |-> dm])
        hp == [Time |-> snap.UpdatedAt, CPU |-> snap.CPU.Percent,
               Mem |-> snap.Memory.UsedPercent,
               Disks |-> IF DOMAIN dm = {} THEN 0 ELSE (Len(h) + 1)]
        zero == [Time |-> 0, CPU |-> FracZero, Mem |-> 0, Disks |-> 0]
        a == appendRefs(h1, hdr, hp, zero, spare)
        trim == trimLeading(Elems(a.heap, a.hdr), snap.UpdatedAt - historyMaxAge)
        b == IF trim > 0
             THEN appendToNilRefs(a.heap, SubSeq(Elems(a.heap, a.hdr), trim + 1, a.hdr.len))
             ELSE a
        c == IF b.hdr.len > historyMaxPoints
             THEN appendToNilRefs(b.heap, SubSeq(Elems(b.heap, b.hdr),
                                                 b.hdr.len - historyMaxPoints + 1, b.hdr.len))
             ELSE b
    IN  c

\* cloneHistory (part_005:58-74) on references: a fresh array, and for each
\* point with a map a fresh map with the same entries.
RECURSIVE clonePointsRefs_ShareMaps(_, _)
clonePointsRefs_ShareMaps(h, points) ==
    [heap |-> h, points |-> points]

RECURSIVE clonePointsRefs(_, _)
clonePointsRefs(h, points) ==
    IF Len(points) = 0 THEN [heap |-> h, points |-> <<>>]
    ELSE LET p == Head(points)
             h1 == IF p.Disks = 0 THEN h ELSE Append(h, [m |-> h[p.Disks].m])
             q == IF p.Disks = 0 THEN p ELSE [p EXCEPT !.Disks = (Len(h) + 1)]
             rest == clonePointsRefs(h1, Tail(points))
         IN  [heap |-> rest.heap, points |-> <<q>> \o rest.points]

cloneHistoryRefs(h, hdr) ==
    IF hdr.len = 0 THEN [heap |-> h, hdr |-> NilHdr]
    ELSE LET c == clonePointsRefs(h, Elems(h, hdr))
         IN  [heap |-> Append(c.heap, [items |-> c.points]),
              hdr |-> [arr |-> (Len(c.heap) + 1), len |-> hdr.len]]


\* A history, and a snapshot with its slices of values and its pointers
\* to values, dereferenced.
DerefHistory(h, hdr) == IF hdr.arr = 0 THEN NilSlice ELSE MkSlice(DerefPoints(h, hdr))

DerefSnapshot(h, r) ==
    LET DerefSlice(hdr) == IF hdr.arr = 0 THEN NilSlice ELSE MkSlice(Elems(h, hdr))
        DerefPtr(a) == IF a = 0 THEN Nil ELSE <<h[a].v>>
    IN  [r EXCEPT !.Disks = DerefSlice(r.Disks), !.GPUs = DerefSlice(r.GPUs),
                  !.Memory.Modules = DerefSlice(r.Memory.Modules),
                  !.TopCPU = DerefPtr(r.TopCPU), !.TopMemory = DerefPtr(r.TopMemory),
                  !.History = DerefHistory(h, r.History)]

\* The references update() ends up with for the tick t whose values
\* UpdateSample has computed: m.disksCache and m.gpusCache are the sampler's
\* fresh list when this tick stored one (resources_process.go:274-293) and
\* the cached one otherwise; Memory.Modules is m.memoryModules, loaded once
\* (resources_memory.go:36-38, 58-87); TopCPU and TopMemory point to this
\* tick's samples; the snapshot of lines 308-319 refers to all of them.
sampleRefs(h, m, t) ==
    LET storedList(f) ==
            t.calls[f] = 1 /\ (~t.env[f].val.isNil \/ t.env[f].err = Nil)
        \* A sampler's fresh list or sample, put on the heap.
        newSliceRefs(h0, slice) ==
            IF slice.isNil THEN [heap |-> h0, hdr |-> NilHdr]
            ELSE [heap |-> Append(h0, [items |-> slice.items]),
                  hdr |-> [arr |-> (Len(h0) + 1), len |-> Len(slice.items)]]
        newPtrRefs(h0, opt) ==
            IF opt = Nil THEN [heap |-> h0, addr |-> 0]
            ELSE [heap |-> Append(h0, [v |-> opt[1]]), addr |-> (Len(h0) + 1)]
        d == IF storedList("disks") THEN newSliceRefs(h, t.snap.Disks)
             ELSE [heap |-> h, hdr |-> m.disksCache]
        g == IF storedList("gpus") THEN newSliceRefs(d.heap, t.snap.GPUs)
             ELSE [heap |-> d.heap, hdr |-> m.gpusCache]
        load == ~m.memoryModulesLoaded /\ t.memErr = Nil
        mm == IF load THEN newSliceRefs(g.heap, t.memStats.Modules)
              ELSE [heap |-> g.heap, hdr |-> m.memoryModules]
        modules == IF t.memErr = Nil /\ mm.hdr.len > 0 THEN mm.hdr ELSE NilHdr
        tc == newPtrRefs(mm.heap, t.snap.TopCPU)
        tm == newPtrRefs(tc.heap, t.snap.TopMemory)
    IN  [heap |-> tm.heap,
         mref |-> [m EXCEPT !.disksCache = d.hdr, !.gpusCache = g.hdr,
                            !.memoryModules = mm.hdr,
                            !.memoryModulesLoaded = (m.memoryModulesLoaded \/ load)],
         snap |-> [t.snap EXCEPT !.Disks = d.hdr, !.GPUs = g.hdr,
                                 !.Memory.Modules = modules,
                                 !.TopCPU = tc.addr, !.TopMemory = tm.addr,
                                 !.History = NilHdr]]


\* Lines 321-323 with their references: what Snapshot callers hold is in
\* the same heap as the arrays, maps and pointees update() publishes.
UpdateStoreRefs ==
    /\ upd = "store"
    /\ LET r == sampleRefs(heap, mref, tick)
       IN  /\ Len(r.heap) <= MaxHeap
           /\ heap' = r.heap
           /\ mref' = [r.mref EXCEPT !.snapshot = r.snap]
    /\ snapshot' = tick.snap
    /\ upd' = "append"
    /\ UNCHANGED <<mu, history, tickTimes, cpuVars, cacheVars, pc, tick, stop,
                   tickPending, timeVars, rd, cpuRet, callers, hwVars, procVars, appVars>>

UpdateAppendRefs ==
    /\ upd = "append"
    /\ \E spare \in 0..1 :
          LET r == appendHistoryLockedRefs(heap, mref.history, tick.snap, spare)
          IN  /\ Len(r.heap) <= MaxHeap
              /\ heap' = r.heap
              /\ mref' = [mref EXCEPT !.history = r.hdr]
    /\ history' = appendHistoryLocked(history, tick.snap)
    /\ tickTimes' = Append(tickTimes, tick.snap.UpdatedAt)
    /\ upd' = "unlock"
    /\ UNCHANGED <<mu, snapshot, cpuVars, cacheVars, pc, tick, stop,
                   tickPending, timeVars, rd, cpuRet, callers, hwVars, procVars, appVars>>

\* Snapshot (resources_process.go:199-210) on references, RLock to RUnlock:
\* the struct copy of line 203 copies every header and pointer as it is,
\* lines 204-205 give Disks and GPUs fresh arrays, lines 206-208 clone the
\* history.  The caller keeps the result; val is what it was given and at
\* the number of publishes so far.
SnapshotRefs(c, includeHistory) ==
    /\ canRLock
    /\ callers[c] = Nil
    /\ LET s == mref.snapshot
           d == appendToNilRefs(heap, Elems(heap, s.Disks))
           g == appendToNilRefs(d.heap, Elems(d.heap, s.GPUs))
           hs == IF includeHistory THEN cloneHistoryRefs(g.heap, mref.history)
                 ELSE [heap |-> g.heap, hdr |-> s.History]
           r == [s EXCEPT !.Disks = d.hdr, !.GPUs = g.hdr, !.History = hs.hdr]
       IN  /\ Len(hs.heap) <= MaxHeap
           /\ heap' = hs.heap
           /\ callers' = [callers EXCEPT ![c] = <<[ref |-> r, val |-> DerefSnapshot(hs.heap, r),
                                                   at |-> Len(tickTimes), writes |-> {}]>>]
    /\ UNCHANGED <<sharedVars, cpuVars, cacheVars, runVars, timeVars, rd, cpuRet, mref, hwVars,
                 procVars, appVars>>

\* The writer writes, once, to what Snapshot gave it: a field of a history
\* point, an entry of a point's Disks map, a field of a disk, of a memory
\* module, of the top-memory process sample.
Given(c) == callers[c][1]

CallerWrite(kind) ==
    /\ callers["writer"] # Nil
    /\ Given("writer").writes = {}
    /\ LET ref == Given("writer").ref
       IN  CASE kind = "history point" ->
                  /\ ref.History.len > 0
                  /\ heap' = [heap EXCEPT ![ref.History.arr].items[1].Time = 0]
             [] kind = "history disks" ->
                  /\ ref.History.len > 0
                  /\ LET a == heap[ref.History.arr].items[1].Disks
                     IN  /\ a # 0
                         /\ heap' = [heap EXCEPT ![a].m = [mp \in (DOMAIN @) \cup {"/"} |-> 99]]
             [] kind = "disk" ->
                  /\ ref.Disks.len > 0
                  /\ heap' = [heap EXCEPT ![ref.Disks.arr].items[1].Model = "x"]
             [] kind = "memory module" ->
                  /\ ref.Memory.Modules.len > 0
                  /\ heap' = [heap EXCEPT ![ref.Memory.Modules.arr].items[1].Label = "x"]
             [] kind = "top memory" ->
                  /\ ref.TopMemory # 0
                  /\ heap' = [heap EXCEPT ![ref.TopMemory].v.Name = "x"]
    /\ callers' = [callers EXCEPT !["writer"][1].writes = @ \cup {kind}]
    /\ UNCHANGED <<sharedVars, cpuVars, cacheVars, runVars, timeVars, rd, cpuRet, mref, hwVars,
                 procVars, appVars>>

\* The engine with memory modules installed, and callers that keep and
\* write to what Snapshot returned.

NextRefs ==
    \/ StartCall
    \/ UpdateSample([HealthyEnv EXCEPT !.mem.val.Modules =
                        MkSlice(<<[Label |-> "DIMM0", SizeBytes |-> 8, Vendor |-> "Kingston"]>>)])
    \/ UpdateLock \/ UpdateStoreRefs \/ UpdateAppendRefs \/ UpdateUnlock
    \/ StartSpawn
    \/ LoopPark
    \/ LoopTick
    \/ Tock
    \/ \E c \in Callers, includeHistory \in BOOLEAN : SnapshotRefs(c, includeHistory)
    \/ \E kind \in {"history point", "history disks", "disk", "memory module", "top memory"} :
          CallerWrite(kind)

SpecRefs == Init /\ [][NextRefs]_vars


\* ----------------------------------------------------------------- strings
\* The strings the samplers look into, character by character.
Chars(s) ==
    CASE s = "" -> <<>>
      [] s = " " -> <<" ">>
      [] s = "NVIDIA" -> <<"N", "V", "I", "D", "I", "A">>
      [] s = "Nvidia Corp" -> <<"N", "v", "i", "d", "i", "a", " ", "C", "o", "r", "p">>
      [] s = "Intel" -> <<"I", "n", "t", "e", "l">>
      [] s = "RTX" -> <<"R", "T", "X">>
      [] s = "GeForce" -> <<"G", "e", "F", "o", "r", "c", "e">>
      [] s = "/" -> <<"/">>
      [] s = "/mnt/data" -> <<"/", "m", "n", "t", "/", "d", "a", "t", "a">>
      [] s = "/proc" -> <<"/", "p", "r", "o", "c">>
      [] s = "/snap" -> <<"/", "s", "n", "a", "p">>
      [] s = "/dev/sda1" -> <<"/", "d", "e", "v", "/", "s", "d", "a", "1">>
      [] s = "/dev/sdb1" -> <<"/", "d", "e", "v", "/", "s", "d", "b", "1">>
      [] s = "/dev/loop0" -> <<"/", "d", "e", "v", "/", "l", "o", "o", "p", "0">>
      [] s = "proc" -> <<"p", "r", "o", "c">>
      [] s = "ext4" -> <<"e", "x", "t", "4">>
      [] s = "zfs" -> <<"z", "f", "s">>
      [] s = "squashfs" -> <<"s", "q", "u", "a", "s", "h", "f", "s">>
      [] s = "/home" -> <<"/", "h", "o", "m", "e">>
      [] s = "tank/home" -> <<"t", "a", "n", "k", "/", "h", "o", "m", "e">>

\* strings.ToLower, strings.Contains, strings.HasPrefix, strings.TrimSpace.
Contains(cs, sub) ==
    \E i \in 0..(Len(cs) - Len(sub)) : SubSeq(cs, i + 1, i + Len(sub)) = sub
HasPrefix(cs, pre) == Len(cs) >= Len(pre) /\ SubSeq(cs, 1, Len(pre)) = pre
TrimSpace(s) ==
    LET RECURSIVE trimLeft(_)
        trimLeft(cs) == IF Len(cs) > 0 /\ Head(cs) = " " THEN trimLeft(Tail(cs)) ELSE cs
        RECURSIVE trimRight(_)
        trimRight(cs) ==
            IF Len(cs) > 0 /\ cs[Len(cs)] = " "
            THEN trimRight(SubSeq(cs, 1, Len(cs) - 1)) ELSE cs
        trimmed == trimRight(trimLeft(Chars(s)))
    IN  CHOOSE t \in {"", " ", "NVIDIA", "Nvidia Corp", "Intel", "RTX", "GeForce", "/",
                      "/mnt/data", "/proc", "/snap", "/dev/sda1", "/dev/sdb1", "/dev/loop0",
                      "proc", "ext4", "zfs", "squashfs", "/home", "tank/home"} :
            Chars(t) = trimmed

\* -------------------------------------------------------------------- GPUs
\* ghw.GPU(): an error, or the graphics cards; Vendor, Name and Driver are
\* the device info after strings.TrimSpace (part_002:972-990).
Card(idx, vendor, name) == [Index |-> idx, Vendor |-> vendor, Name |-> name, Driver |-> "drv"]
GHWOutcomes ==
    {[cards |-> <<>>, err |-> Err("ghw: no pci")],
     [cards |-> <<>>, err |-> Nil],
     [cards |-> <<Card(0, "NVIDIA", "GeForce")>>, err |-> Nil],
     [cards |-> <<Card(0, "Nvidia Corp", "")>>, err |-> Nil],
     [cards |-> <<Card(0, "Intel", "UHD")>>, err |-> Nil],
     [cards |-> <<Card(1, "NVIDIA", "GeForce"), Card(0, "Intel", "")>>, err |-> Nil],
     [cards |-> <<Card(1, "Nvidia Corp", ""), Card(0, "NVIDIA", "GeForce")>>, err |-> Nil]}

\* sort.Slice by Index (part_002:988).
RECURSIVE sortByIndex(_)
sortByIndex(gpus) ==
    IF Len(gpus) = 0 THEN <<>>
    ELSE LET i == CHOOSE k \in 1..Len(gpus) :
                      \A l \in 1..Len(gpus) : gpus[k].Index <= gpus[l].Index
         IN  <<gpus[i]>> \o sortByIndex([k \in 1..(Len(gpus) - 1) |->
                                            IF k < i THEN gpus[k] ELSE gpus[k + 1]])

\* getGPUMeta (part_002:963-992): the cached list while it is younger than
\* hardwareMetaTTL; on an inventory error the old list with the error.
getGPUMeta(meta, at, now, ghw) ==
    IF ~meta.isNil /\ ~SubAtLeast(now, at, hardwareMetaTTL)
    THEN [val |-> meta, err |-> Nil, meta |-> meta, at |-> at]
    ELSE IF ghw.err # Nil
    THEN [val |-> meta, err |-> ghw.err, meta |-> meta, at |-> at]
    ELSE LET cardStats(card) ==
                 [Index |-> card.Index,
                  Name |-> IF card.Name = "" /\ card.Vendor # "" THEN card.Vendor
                           ELSE card.Name,
                  Vendor |-> card.Vendor, Driver |-> card.Driver,
                  UtilizationPercent |-> Nil, MemoryTotalBytes |-> Nil,
                  MemoryUsedBytes |-> Nil, TemperatureC |-> Nil]
             gpus == MkSlice(sortByIndex([i \in 1..Len(ghw.cards) |->
                                             cardStats(ghw.cards[i])]))
         IN  [val |-> gpus, err |-> Nil, meta |-> gpus, at |-> At(now)]

\* nvidiaSMIMetrics (part_002:1016-1069): an error (the tool is not on PATH,
\* it exits with an error, its context is cancelled at the deadline), no
\* row (empty output) or the rows it printed.
SMIRow(name, util) ==
    [Name |-> name, UtilPercent |-> util, MemUsedBytes |-> 1, MemTotalBytes |-> 8,
     TempC |-> 50 + util]
DeadlineExceeded == Err("context deadline exceeded")
SMIOutcomes ==
    {[rows |-> <<>>, err |-> Err("nvidia-smi: not found")],
     [rows |-> <<>>, err |-> Err("exit status 9: no devices")],
     [rows |-> <<>>, err |-> Nil],
     [rows |-> <<SMIRow("RTX", 7)>>, err |-> Nil],
     [rows |-> <<SMIRow("RTX", 7), SMIRow("RTX", 9)>>, err |-> Nil]}

\* mergeNvidiaSMIMetrics (part_002:1071-1119).
isNvidia(vendor) ==
    LET lowerOf(c) ==
            CASE c = "A" -> "a" [] c = "C" -> "c" [] c = "D" -> "d" [] c = "F" -> "f"
              [] c = "G" -> "g" [] c = "I" -> "i" [] c = "N" -> "n" [] c = "R" -> "r"
              [] c = "T" -> "t" [] c = "V" -> "v" [] c = "X" -> "x" [] OTHER -> c
        ToLower(cs) == [i \in DOMAIN cs |-> lowerOf(cs[i])]
    IN  Contains(ToLower(Chars(vendor)), <<"n", "v", "i", "d", "i", "a">>)
RECURSIVE nvidiaIdx(_, _)
nvidiaIdx(gpus, i) ==
    IF i > Len(gpus) THEN <<>>
    ELSE (IF isNvidia(gpus[i].Vendor) THEN <<i>> ELSE <<>>) \o nvidiaIdx(gpus, i + 1)

rowStats(i, row) ==
    [Index |-> i, Name |-> row.Name, Vendor |-> "NVIDIA", Driver |-> "",
     UtilizationPercent |-> <<row.UtilPercent>>, MemoryTotalBytes |-> <<row.MemTotalBytes>>,
     MemoryUsedBytes |-> <<row.MemUsedBytes>>, TemperatureC |-> <<row.TempC>>]


mergeNvidiaSMIMetrics_AlwaysAppend(gpus, metrics) ==
    gpus \o [i \in 1..Len(metrics) |-> rowStats(i - 1, metrics[i])]

mergeNvidiaSMIMetrics_RowsFromTheFront(gpus, metrics) ==
    LET withRow(gpu, row) ==
            [gpu EXCEPT !.Name = IF TrimSpace(@) = "" THEN row.Name ELSE @,
                        !.UtilizationPercent = <<row.UtilPercent>>,
                        !.TemperatureC = <<row.TempC>>,
                        !.MemoryUsedBytes = <<row.MemUsedBytes>>,
                        !.MemoryTotalBytes = <<row.MemTotalBytes>>]
        idx == nvidiaIdx(gpus, 1)
    IN  IF Len(idx) = 0
        THEN gpus \o [i \in 1..Len(metrics) |-> rowStats(i - 1, metrics[i])]
        ELSE [pos \in 1..Len(gpus) |->
                 IF pos <= Len(metrics) /\ pos <= Len(idx)
                 THEN withRow(gpus[pos], metrics[pos])
                 ELSE gpus[pos]]

mergeNvidiaSMIMetrics(gpus, metrics) ==
    LET withRow(gpu, row) ==
            [gpu EXCEPT !.Name = IF TrimSpace(@) = "" THEN row.Name ELSE @,
                        !.UtilizationPercent = <<row.UtilPercent>>,
                        !.TemperatureC = <<row.TempC>>,
                        !.MemoryUsedBytes = <<row.MemUsedBytes>>,
                        !.MemoryTotalBytes = <<row.MemTotalBytes>>]
        idx == nvidiaIdx(gpus, 1)
    IN  IF Len(idx) = 0
        THEN gpus \o [i \in 1..Len(metrics) |-> rowStats(i - 1, metrics[i])]
        ELSE [pos \in 1..Len(gpus) |->
                 IF \E i \in 1..Len(metrics) : i <= Len(idx) /\ idx[i] = pos
                 THEN withRow(gpus[pos],
                              metrics[CHOOSE i \in 1..Len(metrics) :
                                          i <= Len(idx) /\ idx[i] = pos])
                 ELSE gpus[pos]]

gpusResult_FailOnAnyError(g, tool) ==
    IF g.err # Nil \/ tool.err # Nil
    THEN [val |-> NilSlice, err |-> Err("gpu: failed")]
    ELSE [val |-> MkSlice(g.val.items), err |-> Nil]

\* sampleGPUs (part_002:998-1014): lines 1006-1013 on the inventory g that
\* getGPUMeta answered and the answer of the tool.
gpusResult(g, tool) ==
    LET base == g.val.items
        gpus == IF Len(tool.rows) > 0 THEN mergeNvidiaSMIMetrics(base, tool.rows) ELSE base
    IN  IF Len(gpus) = 0
        THEN IF g.err # Nil /\ tool.err # Nil
             THEN [val |-> NilSlice,
                   err |-> Err("gpu: ghw=" \o ErrorOf(g.err)
                               \o "; nvidia-smi=" \o ErrorOf(tool.err))]
             ELSE [val |-> NilSlice, err |-> Nil]
        ELSE [val |-> MkSlice(gpus), err |-> Nil]

sampleGPUs(meta, at, now, ghw, tool) ==
    LET g == getGPUMeta(meta, at, now, ghw)
        ret == gpusResult(g, tool)
    IN  [val |-> ret.val, err |-> ret.err,
         base |-> g.val.items, ghwErr |-> g.err, rows |-> tool.rows, smiErr |-> tool.err,
         meta |-> g.meta, at |-> g.at]

\* update() with sampleGPUs in it (resources_process.go:286-296), the other
\* samplers healthy.  r is what sampleGPUs did, now and nowWall the
\* time.Now() of line 217.
updateWithGPUs(r, now, nowWall) ==
    /\ UpdateSampleAt([HealthyEnv EXCEPT !.gpus = [val |-> r.val, err |-> r.err]], now, nowWall)
    /\ gpuMeta' = r.meta /\ gpuMetaUpdatedAt' = r.at
    /\ gpusRet' = [called |-> TRUE, base |-> r.base, ghwErr |-> r.ghwErr, rows |-> r.rows,
                   smiErr |-> r.smiErr, val |-> r.val, err |-> r.err]
    /\ UNCHANGED <<diskMeta, diskMetaUpdatedAt, disksRet, procVars>>

\* The tool is not there, or answers at once.
UpdateSampleGPUs(ghw, tool) ==
    /\ upd = "sample"
    /\ SubAtLeast(clock, gpusUpdatedAt, gpusSampleTTL)
    /\ updateWithGPUs(sampleGPUs(gpuMeta, gpuMetaUpdatedAt, clock, ghw, tool), clock, wall)
    /\ smi' = smi

\* The GPU list is younger than gpusSampleTTL: sampleGPUs is not called.
UpdateSampleGPUsCached ==
    /\ ~SubAtLeast(clock, gpusUpdatedAt, gpusSampleTTL)
    /\ UpdateSample(HealthyEnv)

\* part_002:1022-1029: the tool is started under a context that expires
\* after nvidiaSMITimeout, and does not answer; update() waits in
\* cmd.CombinedOutput().
GPUToolHang(ghw) ==
    /\ upd = "sample"
    /\ SubAtLeast(clock, gpusUpdatedAt, gpusSampleTTL)
    /\ upd' = "smi_wait"
    /\ smi' = [now |-> clock, wall |-> wall, deadline |-> clock + nvidiaSMITimeout, ghw |-> ghw]
    /\ UNCHANGED <<sharedVars, cpuVars, cacheVars, pc, tick, stop, tickPending, timeVars,
                   rd, cpuRet, refVars, gpuMeta, gpuMetaUpdatedAt, diskMeta,
                   diskMetaUpdatedAt, gpusRet, disksRet, procVars, appVars>>

\* The tool answers before the deadline after all.

GPUToolAnswer(tool) ==
    /\ upd = "smi_wait"
    /\ clock < smi.deadline
    /\ updateWithGPUs(sampleGPUs(gpuMeta, gpuMetaUpdatedAt, smi.now, smi.ghw, tool),
                      smi.now, smi.wall)
    /\ smi' = NoSMI

\* part_002:1029-1032: at the deadline the context is cancelled, the tool is
\* killed, CombinedOutput returns and nvidiaSMIMetrics returns ctx.Err().
GPUToolCancel_KeepsWaiting ==
    /\ upd = "smi_wait"
    /\ clock >= smi.deadline
    /\ UNCHANGED vars

GPUToolCancel ==
    /\ upd = "smi_wait"
    /\ clock >= smi.deadline
    /\ updateWithGPUs(sampleGPUs(gpuMeta, gpuMetaUpdatedAt, smi.now, smi.ghw,
                                 [rows |-> <<>>, err |-> DeadlineExceeded]),
                      smi.now, smi.wall)
    /\ smi' = NoSMI

\* The engine with its GPU sampler: the inventory and the vendor tool free
\* to fail, the tool free to hang.
NextGPUs ==
    \/ StartCall
    \/ \E ghw \in GHWOutcomes, tool \in SMIOutcomes : UpdateSampleGPUs(ghw, tool)
    \/ UpdateSampleGPUsCached
    \/ \E ghw \in GHWOutcomes : GPUToolHang(ghw)
    \/ \E tool \in {t \in SMIOutcomes : t.err # Err("nvidia-smi: not found")} :
          GPUToolAnswer(tool)
    \/ GPUToolCancel
    \/ UpdateLock \/ UpdateStore \/ UpdateAppend \/ UpdateUnlock
    \/ StartSpawn
    \/ LoopPark
    \/ LoopTick
    \/ Tock

SpecGPUs == Init /\ [][NextGPUs]_vars

\* The same with the scheduling the runtime gives: time passes, the
\* context's timer fires, update() goes on when it can.
SpecGPUsFair ==
    /\ SpecGPUs
    /\ WF_vars(Tock)
    /\ WF_vars(GPUToolCancel \/ UpdateLock \/ UpdateStore \/ UpdateAppend \/ UpdateUnlock)

\* ------------------------------------------------------------------- disks
\* disk.Partitions(true): an error, or the partition table.
Partition(mp, dev, fs) == [Mountpoint |-> mp, Device |-> dev, Fstype |-> fs]
PartitionsOutcomes ==
    LET RootPart == Partition("/", "/dev/sda1", "ext4")
        DataPart == Partition("/mnt/data", "/dev/sdb1", "ext4")
        ProcPart == Partition("/proc", "proc", "proc")
        SnapPart == Partition("/snap", "/dev/loop0", "squashfs")
        HomePart == Partition("/home", "tank/home", "zfs")
    IN  {[list |-> <<>>, err |-> Err("partitions: unreadable")],
         [list |-> <<>>, err |-> Nil],
         [list |-> <<RootPart>>, err |-> Nil],
         [list |-> <<ProcPart, RootPart, DataPart>>, err |-> Nil],
         [list |-> <<SnapPart, HomePart, ProcPart>>, err |-> Nil]}

\* disk.Usage(mp) fails for the mounts in `failing`, else answers this.
UsageOf(mp) ==
    [Total |-> 100, Used |-> IF mp = "/" THEN 40 ELSE 10,
     UsedPercent |-> IF mp = "/" THEN 40 ELSE 10, Fstype |-> "ext4"]

\* getDiskMeta (part_003:61-90): the cached map while it is younger than
\* hardwareMetaTTL; on an inventory error the old map with the error.
getDiskMeta(meta, at, now, block) ==
    IF ~meta.isNil /\ ~SubAtLeast(now, at, hardwareMetaTTL)
    THEN [val |-> meta, err |-> Nil, meta |-> meta, at |-> at]
    ELSE IF block.err # Nil
    THEN [val |-> meta, err |-> block.err, meta |-> meta, at |-> at]
    ELSE LET fresh == [isNil |-> FALSE, m |-> block.meta]
         IN  [val |-> fresh, err |-> Nil, meta |-> fresh, at |-> At(now)]

\* part_003:131-180: the selected mounts.  ignoredFSTypes is the table of
\* part_003:107-127; linuxSelects is the mount a partition of the table
\* selects on linux (lines 134-156), none (the empty set) when skipped.
selectedMounts(parts) ==
    LET ignoredFSTypes ==
            {"autofs", "cgroup", "cgroup2", "configfs", "debugfs", "devfs", "devpts", "devtmpfs",
             "fusectl", "hugetlbfs", "mqueue", "proc", "pstore", "overlay", "squashfs",
             "securityfs", "sysfs", "tmpfs", "tracefs"}
        linuxSelects(p) ==
            LET mp == TrimSpace(p.Mountpoint)
                dev == TrimSpace(p.Device)
            IN  IF p.Mountpoint = "" \/ p.Mountpoint = "/" THEN {}
                ELSE IF p.Fstype \in ignoredFSTypes THEN {}
                ELSE IF mp = "" THEN {}
                ELSE IF \/ Chars(mp) = <<"/", "m", "n", "t">>
                        \/ HasPrefix(Chars(mp), <<"/", "m", "n", "t", "/">>)
                        \/ HasPrefix(Chars(mp), <<"/", "m", "e", "d", "i", "a", "/">>)
                        \/ HasPrefix(Chars(mp), <<"/", "r", "u", "n", "/", "m", "e", "d", "i", "a", "/">>)
                     THEN {mp}
                ELSE IF /\ HasPrefix(Chars(dev), <<"/", "d", "e", "v", "/">>)
                        /\ ~Contains(Chars(dev), <<"l", "o", "o", "p">>)
                     THEN {mp}
                ELSE IF /\ HasPrefix(Chars(mp), <<"/">>)
                        /\ ~HasPrefix(Chars(mp), <<"/", "s", "y", "s", "/">>)
                        /\ ~HasPrefix(Chars(mp), <<"/", "p", "r", "o", "c", "/">>)
                        /\ ~HasPrefix(Chars(mp), <<"/", "d", "e", "v", "/">>)
                     THEN {p.Mountpoint}
                ELSE {}
        windowsSelects(p) ==
            IF Len(Chars(p.Mountpoint)) >= 2 /\ Chars(p.Mountpoint)[2] = ":"
            THEN {p.Mountpoint} ELSE {}
        sel == CASE GOOS = "linux" ->
                        {"/"} \cup UNION {linuxSelects(parts[i]) : i \in 1..Len(parts)}
                 [] GOOS = "windows" ->
                        UNION {windowsSelects(parts[i]) : i \in 1..Len(parts)}
                 [] OTHER -> {"/"}
        named == {i \in 1..Len(parts) : parts[i].Mountpoint # ""}
    IN  IF sel = {} /\ named # {}
        THEN {parts[CHOOSE i \in named : \A k \in named : i <= k].Mountpoint}
        ELSE sel

\* sort.Strings (part_003:186): byte order, over the characters mounts have.
RECURSIVE sortStrings(_)
sortStrings(set) ==
    IF set = {} THEN <<>>
    ELSE LET CharOrder ==
                 <<"/", "0", "1", ":", "a", "b", "c", "d", "e", "h", "k", "l", "m", "n",
                   "o", "p", "r", "s", "t", "v">>
             charRank(c) == CHOOSE i \in 1..Len(CharOrder) : CharOrder[i] = c
             RECURSIVE charsLess(_, _)
             charsLess(a, b) ==
                 IF Len(b) = 0 THEN FALSE
                 ELSE IF Len(a) = 0 THEN TRUE
                 ELSE IF Head(a) = Head(b) THEN charsLess(Tail(a), Tail(b))
                 ELSE charRank(Head(a)) < charRank(Head(b))
             least == CHOOSE x \in set :
                          \A y \in set \ {x} : charsLess(Chars(x), Chars(y))
         IN  <<least>> \o sortStrings(set \ {least})

\* part_003:188-221: the loop over the sorted mounts; a mount whose usage
\* query fails is skipped.  diskStats is the DiskStats of a mount whose
\* query answered (lines 190-219); p is the first partition of the table
\* mounted at mp (part_003:95-105).
RECURSIVE disksOut(_, _, _, _)
disksOut(mountpoints, parts, failing, meta) ==
    LET diskStats(mp) ==
            LET at == {i \in 1..Len(parts) : parts[i].Mountpoint = mp}
                p == IF at = {} THEN Nil
                     ELSE <<parts[CHOOSE i \in at : \A k \in at : i <= k]>>
                usage == UsageOf(mp)
                device == IF p = Nil THEN "" ELSE TrimSpace(p[1].Device)
                fstype == IF p = Nil THEN "" ELSE TrimSpace(p[1].Fstype)
                known == ~meta.isNil /\ mp \in DOMAIN meta.m
            IN  [Mountpoint |-> mp, Device |-> device,
                 Filesystem |-> IF fstype = "" THEN TrimSpace(usage.Fstype) ELSE fstype,
                 DriveType |-> IF known THEN meta.m[mp].DriveType ELSE "",
                 Model |-> IF known THEN meta.m[mp].Model ELSE "",
                 TotalBytes |-> usage.Total, UsedBytes |-> usage.Used,
                 UsedPercent |-> usage.UsedPercent]
    IN  IF Len(mountpoints) = 0 THEN <<>>
        ELSE (IF Head(mountpoints) \in failing THEN <<>>
              ELSE <<diskStats(Head(mountpoints))>>)
             \o disksOut(Tail(mountpoints), parts, failing, meta)


\* sampleDisks (part_003:92-227).
sampleDisks(meta, at, now, parts, failing, block) ==
    IF parts.err # Nil
    THEN [val |-> NilSlice, err |-> parts.err, parts |-> parts, failing |-> failing,
          meta |-> meta, metaErr |-> Nil, selected |-> {}, diskMeta |-> meta, at |-> at]
    ELSE LET dm == getDiskMeta(meta, at, now, block)
             selected == selectedMounts(parts.list)
             out == disksOut(sortStrings(selected), parts.list, failing, dm.val)
         IN  [val |-> MkSlice(out),
              err |-> IF dm.err # Nil THEN Err("disk metadata: " \o ErrorOf(dm.err)) ELSE Nil,
              parts |-> parts, failing |-> failing, meta |-> dm.val, metaErr |-> dm.err,
              selected |-> selected, diskMeta |-> dm.meta, at |-> dm.at]

\* update() with sampleDisks in it (resources_process.go:274-284), the other
\* samplers healthy.
UpdateSampleDisks(parts, failing, block) ==
    /\ upd = "sample"
    /\ SubAtLeast(clock, disksUpdatedAt, disksSampleTTL)
    /\ LET r == sampleDisks(diskMeta, diskMetaUpdatedAt, clock, parts, failing, block)
       IN  /\ UpdateSampleAt([HealthyEnv EXCEPT !.disks = [val |-> r.val, err |-> r.err]],
                             clock, wall)
           /\ diskMeta' = r.diskMeta /\ diskMetaUpdatedAt' = r.at
           /\ disksRet' = [called |-> TRUE, parts |-> r.parts, failing |-> r.failing,
                           meta |-> r.meta, metaErr |-> r.metaErr, selected |-> r.selected,
                           val |-> r.val, err |-> r.err]
    /\ UNCHANGED <<gpuMeta, gpuMetaUpdatedAt, gpusRet, smi, procVars>>

\* The disk list is younger than disksSampleTTL: sampleDisks is not called.
UpdateSampleDisksCached ==
    /\ ~SubAtLeast(clock, disksUpdatedAt, disksSampleTTL)
    /\ UpdateSample(HealthyEnv)

\* The engine with its disk sampler: the partition table, the usage
\* queries and the block-device inventory free to fail.  disk.Usage fails
\* for the mounts in `failing`; ghw.Block() answers an error, or the
\* inventory as getDiskMeta keys it (part_003:71-85): mountpoint -> drive
\* type and model.
NextDisks ==
    \/ StartCall
    \/ \E parts \in PartitionsOutcomes, failing \in {{}, {"/"}, {"/mnt/data"}},
          block \in {[meta |-> <<>>, err |-> Err("ghw: no block devices")],
                     [meta |-> <<>>, err |-> Nil],
                     [meta |-> [mp \in {"/"} |-> [DriveType |-> "SSD", Model |-> "Samsung"]],
                      err |-> Nil]} :
          UpdateSampleDisks(parts, failing, block)
    \/ UpdateSampleDisksCached
    \/ UpdateLock \/ UpdateStore \/ UpdateAppend \/ UpdateUnlock
    \/ StartSpawn
    \/ LoopPark
    \/ LoopTick
    \/ Tock

SpecDisks == Init /\ [][NextDisks]_vars

\* ------------------------------------------------------------ top processes
\* runtime.NumCPU() of the host.
NumCPU == 2

\* process.Processes: an error, or the process table.  A process has its
\* Pid and Name, the total of its CPU times in seconds (Nil when Times
\* fails) and its resident set size (Nil when MemoryInfo fails).
ProcessTables ==
    LET Proc(pid, total, rss) == [Pid |-> pid, Name |-> "proc", times |-> total, mem |-> rss]
    IN  {[list |-> <<>>, err |-> Err("processes: unreadable")],
         [list |-> <<Proc(1, <<1>>, <<2>>)>>, err |-> Nil],
         [list |-> <<Proc(1, <<0>>, <<2>>), Proc(2, <<MaxCounter>>, Nil)>>, err |-> Nil]}
        \cup {[list |-> <<Proc(1, t1, <<2>>), Proc(2, t2, <<5>>)>>, err |-> Nil] :
                 t1 \in {Nil, <<MaxCounter>>}, t2 \in {<<0>>, <<MaxCounter>>}}

\* resources_process.go:55-66: the CPU percent of a process from the growth
\* of its CPU time over the elapsed seconds.
processCPUPercent_NoClamp(totalCPU, prev, elapsedSec, cores) ==
    Frac((totalCPU - prev) * 100, elapsedSec * cores)

processCPUPercent(totalCPU, prev, elapsedSec, cores) ==
    LET delta == IF totalCPU - prev < 0 THEN 0 ELSE totalCPU - prev
        cpuPct == Frac(delta * 100, elapsedSec * cores)
    IN  IF FracLess(cpuPct, FracZero) THEN FracZero
        ELSE IF FracLess(FracHundred, cpuPct) THEN FracHundred
        ELSE cpuPct

\* sampleTopProcesses (resources_process.go:20-102).  now.Sub of the zero
\* Time saturates at the maximum Duration, 9223372036 seconds: a length far
\* above every elapsed time of the model, written here as 2147483.
sampleTopProcesses(prev, last, now, logicalCores, memTotal, procs) ==
    IF procs.err # Nil
    THEN [cpu |-> Nil, mem |-> Nil, err |-> procs.err, prev |-> prev, last |-> last]
    ELSE LET elapsedSec == IF IsZero(last) THEN 2147483 ELSE now - last[1]
             cores == IF logicalCores > 0 THEN logicalCores
                      ELSE IF NumCPU > 0 THEN NumCPU ELSE 1
             RECURSIVE scan(_, _)
             scan(ps, acc) ==
                 IF Len(ps) = 0 THEN acc
                 ELSE LET p == Head(ps)
                          timed == p.times # Nil
                          known == timed /\ elapsedSec > 0 /\ p.Pid \in DOMAIN prev
                          cpuPct == processCPUPercent(p.times[1], prev[p.Pid], elapsedSec, cores)
                          newPrev == IF timed
                                     THEN [q \in DOMAIN acc.newPrev \cup {p.Pid} |->
                                              IF q = p.Pid THEN p.times[1] ELSE acc.newPrev[q]]
                                     ELSE acc.newPrev
                          topCPU == IF known /\ (acc.topCPU = Nil
                                                 \/ FracLess(acc.topCPU[1].CPUPercent, cpuPct))
                                    THEN <<[PID |-> p.Pid, Name |-> p.Name, CPUPercent |-> cpuPct,
                                            MemoryBytes |-> 0, MemoryPercent |-> FracZero]>>
                                    ELSE acc.topCPU
                          memBytes == p.mem[1]
                          memPct == IF memTotal > 0 THEN Frac(memBytes * 100, memTotal)
                                    ELSE FracZero
                          topMem == IF p.mem # Nil /\ (acc.topMem = Nil
                                                      \/ memBytes > acc.topMem[1].MemoryBytes)
                                    THEN <<[PID |-> p.Pid, Name |-> p.Name, CPUPercent |-> FracZero,
                                            MemoryBytes |-> memBytes, MemoryPercent |-> memPct]>>
                                    ELSE acc.topMem
                          topCPU2 == IF p.mem # Nil /\ topCPU # Nil /\ topCPU[1].PID = p.Pid
                                        /\ topCPU[1].Name = p.Name
                                     THEN <<[topCPU[1] EXCEPT !.MemoryBytes = memBytes,
                                                             !.MemoryPercent = memPct]>>
                                     ELSE topCPU
                      IN  scan(Tail(ps), [newPrev |-> newPrev, topCPU |-> topCPU2,
                                          topMem |-> topMem])
             r == scan(procs.list, [newPrev |-> <<>>, topCPU |-> Nil, topMem |-> Nil])
         IN  [cpu |-> r.topCPU, mem |-> r.topMem, err |-> Nil, prev |-> r.newPrev,
              last |-> At(now)]

\* update() with sampleTopProcesses in it (resources_process.go:303), given
\* the logical cores of the CPU info of this tick and the memory total.
UpdateSampleTop(cs, procs) ==
    /\ upd = "sample"
    /\ LET env == [HealthyEnv EXCEPT !.cpuStatic = cs]
           cores == refreshCPUInfo(clock, [val |-> cpuStatic, err |-> cpuStaticErr,
                                          at |-> cpuStaticUpdatedAt], cs, cpuStaticTTL
                                  ).val.LogicalCores
           r == sampleTopProcesses(prevProcessTimes, lastProcessSample, clock, cores,
                                   env.mem.val.TotalBytes, procs)
       IN  /\ UpdateSampleAt([env EXCEPT !.top = [cpu |-> r.cpu, mem |-> r.mem, err |-> r.err]],
                             clock, wall)
           /\ prevProcessTimes' = r.prev /\ lastProcessSample' = r.last
           /\ topRet' = [called |-> TRUE, procs |-> procs.list, prev |-> prevProcessTimes,
                         last |-> lastProcessSample, now |-> clock, cores |-> cores,
                         memTotal |-> env.mem.val.TotalBytes,
                         cpu |-> r.cpu, mem |-> r.mem, err |-> r.err]
    /\ UNCHANGED hwVars

\* The engine with its process scan: the process table free to change and
\* to fail, the CPU info read or not.
NextTop ==
    \/ StartCall
    \/ \E cs \in {HealthyEnv.cpuStatic, [val |-> ZeroCPUStats, err |-> Err("cpu info: unavailable")]},
          procs \in ProcessTables : UpdateSampleTop(cs, procs)
    \/ UpdateLock \/ UpdateStore \/ UpdateAppend \/ UpdateUnlock
    \/ StartSpawn
    \/ LoopPark
    \/ LoopTick
    \/ Tock

SpecTop == Init /\ [][NextTop]_vars

\* ------------------------------------------------------------ the dashboard
\* formatPercent (index.go:346-350) of the number p, or of null when p is
\* Nil: Number(null) is 0, every number of a response is finite, and
\* toFixed(1) rounds to the nearest tenth, the larger of two nearest.
formatPercent(p) ==
    LET n == IF p = Nil THEN FracZero ELSE p[1]
    IN  [kind |-> "fixed1", n |-> (20 * n[1] + n[2]) \div (2 * n[2]), unit |-> ""]

\* formatGB (index.go:339-344): "-" for null, else the gigabytes with one
\* decimal.
formatGB(bytes) ==
    IF bytes = Nil THEN [kind |-> "-", n |-> 0, unit |-> ""]
    ELSE [kind |-> "fixed1", n |-> (10 * bytes[1] + 536870912) \div 1073741824,
          unit |-> " GB"]

\* updateResources (index.go:1033-1081): the page fetches /api/resources,
\* whose handler (index.go:1147-1156) encodes Snapshot(), the copy of the
\* published snapshot taken under the read lock.  data.cpu and data.memory
\* are objects in every response, data.errors is never read.  A failed
\* fetch sets the status only.
PageUpdateResources(ok) ==
    /\ ~mu.writer
    /\ page' = IF ~ok THEN [page EXCEPT !.status = "error"]
               ELSE [status |-> "live",
                     hostIp |-> IF snapshot.HostIP # "" THEN snapshot.HostIP ELSE "-",
                     cpuPercent |-> formatPercent(<<snapshot.CPU.Percent>>),
                     processCount |-> [kind |-> "integer", n |-> snapshot.Processes, unit |-> ""],
                     memUsed |-> formatGB(<<snapshot.Memory.UsedBytes>>),
                     memTotal |-> formatGB(<<snapshot.Memory.TotalBytes>>),
                     memPercent |-> formatPercent(<<Frac(snapshot.Memory.UsedPercent, 1)>>),
                     received |-> TRUE, errors |-> snapshot.Errors]
    /\ UNCHANGED <<monitorVars, storeVars, cliVars>>

\* The engine with samplers that fail, and the page polling it.
NextPage ==
    \/ StartCall
    \/ \E env \in {HealthyEnv,
                    [HealthyEnv EXCEPT !.mem = [val |-> ZeroMemoryStats,
                                                err |-> Err("meminfo: unreadable")]],
                    [HealthyEnv EXCEPT !.cpuTimes = [list |-> <<>>, err |-> Err("cpu times")]]} :
          UpdateSample(env)
    \/ UpdateLock \/ UpdateStore \/ UpdateAppend \/ UpdateUnlock
    \/ StartSpawn
    \/ LoopPark
    \/ LoopTick
    \/ Tock
    \/ \E ok \in BOOLEAN : PageUpdateResources(ok)

SpecPage == Init /\ [][NextPage]_vars

\* ----------------------------------------------------------- the link store
\* The longest list a call is started on.
MaxLinks == 3

\* c.m.Lock() of SaveLink (part_002:10) and DeleteLink (deletelink.go:10):
\* handler g enters with its argument once the mutex is free.  A DeleteLink
\* carries the URL only.
StoreLock_NoExclusion(g, op, link) ==
    /\ reqs[g].pc = "idle" /\ Len(links) <= MaxLinks
    /\ op = "delete" => link.Title = ""
    /\ reqs' = [reqs EXCEPT ![g] = [pc |-> "index", op |-> op, link |-> link, idx |-> 0]]
    /\ UNCHANGED <<links, linksMu, monitorVars, page, cliVars>>

StoreLock(g, op, link) ==
    /\ reqs[g].pc = "idle" /\ Len(links) <= MaxLinks
    /\ op = "delete" => link.Title = ""
    /\ linksMu = ""
    /\ linksMu' = g
    /\ reqs' = [reqs EXCEPT ![g] = [pc |-> "index", op |-> op, link |-> link, idx |-> 0]]
    /\ UNCHANGED <<links, monitorVars, page, cliVars>>

\* slices.IndexFunc (part_002:11-13, deletelink.go:11-13): the first index
\* whose Url is the argument's, counted from 0, or -1.
StoreIndex(g) ==
    /\ reqs[g].pc = "index"
    /\ LET hits == {i \in 1..Len(links) : links[i].Url = reqs[g].link.Url}
       IN  reqs' = [reqs EXCEPT ![g].pc = "write",
                                ![g].idx = IF hits = {} THEN 0 - 1
                                           ELSE (CHOOSE i \in hits : \A k \in hits : i <= k) - 1]
    /\ UNCHANGED <<links, linksMu, monitorVars, page, cliVars>>

\* Lines 14-18 of part_002 and 14-16 of deletelink.go: append or replace,
\* or cut the entry out.  (go c.autosave() writes the file from the list.)
StoreWrite(g) ==
    /\ reqs[g].pc = "write"
    /\ LET idx == reqs[g].idx
       IN  links' = IF reqs[g].op = "save"
                    THEN IF idx = 0 - 1 THEN Append(links, reqs[g].link)
                         ELSE [links EXCEPT ![idx + 1] = reqs[g].link]
                    ELSE IF idx # 0 - 1
                         THEN SubSeq(links, 1, idx) \o SubSeq(links, idx + 2, Len(links))
                         ELSE links
    /\ reqs' = [reqs EXCEPT ![g].pc = "unlock"]
    /\ UNCHANGED <<linksMu, monitorVars, page, cliVars>>

\* c.m.Unlock().
StoreUnlock(g) ==
    /\ reqs[g].pc = "unlock"
    /\ linksMu' = IF linksMu = g THEN "" ELSE linksMu
    /\ reqs' = [reqs EXCEPT ![g] = NoRequest]
    /\ UNCHANGED <<links, monitorVars, page, cliVars>>

\* The handlers of POST and DELETE /api/links, each its own goroutine.
NextStore ==
    \E g \in Handlers :
        \/ \E link \in [Url : {"a", "b"}, Title : {"t1", "t2"}] : StoreLock(g, "save", link)
        \/ \E url \in {"a", "b"} : StoreLock(g, "delete", [Url |-> url, Title |-> ""])
        \/ StoreIndex(g)
        \/ StoreWrite(g)
        \/ StoreUnlock(g)

SpecStore == Init /\ [][NextStore]_vars

\* -------------------------------------------------------------- self-update
\* A path is a file name and the timestamp at its end (0 when it has none);
\* a file is a binary of some build, the database, or the state file with
\* the updateState written to it.  The commands are run with the binary at
\* exePath, as the README says (part_000:19-29), on a GOOS other than
\* windows.
MaxStamp == 2
updateStatePath == [name |-> "linksserver.update.json", ts |-> 0]

\* copyFile (update.go:402-427) of a readable source with the given content:
\* O_EXCL refuses an existing destination, a failed copy or close removes
\* what was written.
copyFile(fsys, content, dst, ok) ==
    IF dst \in DOMAIN fsys THEN [fs |-> fsys, err |-> Err("open: file exists")]
    ELSE IF ~ok THEN [fs |-> fsys, err |-> Err("copy: input/output error")]
    ELSE [fs |-> [q \in DOMAIN fsys \cup {dst} |-> IF q = dst THEN content ELSE fsys[q]],
          err |-> Nil]

\* New (client.go:21-38) of a starting server: the default database is
\* written when there is none.
ServeNewClient ==
    /\ [name |-> "links.db.json", ts |-> 0] \notin DOMAIN files
    /\ files' = [q \in DOMAIN files \cup {[name |-> "links.db.json", ts |-> 0]} |->
                    IF q \in DOMAIN files THEN files[q] ELSE [kind |-> "db", build |-> ""]]
    /\ UNCHANGED <<cli, made, monitorVars, page, storeVars>>

\* cmdUpdate / cmdCompleteUpdate (update.go:49-67): the command starts, at
\* the second now; the build of the running process is that of its binary.
CLIStart(name, now) ==
    /\ cli.pc = "done"
    /\ exePath \in DOMAIN files
    /\ cli' = [NoCommand EXCEPT !.name = name, !.pc = "begin", !.now = now,
                                !.cur = files[exePath].build]
    /\ UNCHANGED <<files, made, monitorVars, page, storeVars>>

\* runUpdate, lines 74-79: the state file of a pending update ends the run.
UpdatePending_IgnoresState ==
    /\ cli.name = "update" /\ cli.pc = "begin"
    /\ cli' = [cli EXCEPT !.pc = "install"]
    /\ made' = {}
    /\ UNCHANGED <<files, monitorVars, page, storeVars>>

UpdatePending ==
    /\ cli.name = "update" /\ cli.pc = "begin"
    /\ IF updateStatePath \in DOMAIN files
       THEN /\ cli' = [cli EXCEPT !.pc = "done", !.result = Err("update already pending")]
            /\ UNCHANGED made
       ELSE /\ cli' = [cli EXCEPT !.pc = "install"]
            /\ made' = {}
    /\ UNCHANGED <<files, monitorVars, page, storeVars>>

\* Lines 87-130: go install into a temporary directory fails, or installs
\* the build latest; the same build ends the run, a new one fixes the stage
\* path (stageBinaryPath, lines 284-294: with the timestamp when the plain
\* name is taken) and the backup path (backupBinaryPath, lines 296-303).
UpdateInstall(latest) ==
    /\ cli.name = "update" /\ cli.pc = "install"
    /\ cli' = IF latest = ""
              THEN [cli EXCEPT !.pc = "done", !.result = Err("failed to run go install")]
              ELSE IF latest = cli.cur
              THEN [cli EXCEPT !.pc = "done", !.out = "already latest"]
              ELSE LET stage == [name |-> "linksserver-" \o latest, ts |-> 0]
                   IN  [cli EXCEPT !.pc = "backup", !.latest = latest,
                                   !.st.TargetPath = exePath,
                                   !.st.BackupPath = [name |-> "linksserver.backup",
                                                      ts |-> cli.now],
                                   !.st.StagePath = IF stage \in DOMAIN files
                                                    THEN [stage EXCEPT !.ts = cli.now]
                                                    ELSE stage,
                                   !.st.From = cli.cur, !.st.To = latest]
    /\ UNCHANGED <<files, made, monitorVars, page, storeVars>>

\* Lines 132-144: executableFileMode, then copyFile of the running binary
\* to the backup path and of the installed binary to the stage path; an
\* error ends the run.
UpdateCopy_ContinueOnError(ok) ==
    /\ cli.name = "update" /\ cli.pc \in {"backup", "stage"}
    /\ LET r == IF cli.pc = "backup"
                THEN copyFile(files, files[exePath], cli.st.BackupPath, ok)
                ELSE copyFile(files, [kind |-> "binary", build |-> cli.latest],
                              cli.st.StagePath, ok)
       IN  /\ files' = r.fs
           /\ made' = IF r.err = Nil
                      THEN made \cup {IF cli.pc = "backup" THEN cli.st.BackupPath
                                      ELSE cli.st.StagePath}
                      ELSE made
           /\ cli' = [cli EXCEPT !.pc = IF cli.pc = "backup" THEN "stage" ELSE "db"]
    /\ exePath \in DOMAIN files
    /\ UNCHANGED <<monitorVars, page, storeVars>>

UpdateCopy(ok) ==
    /\ cli.name = "update" /\ cli.pc \in {"backup", "stage"}
    /\ IF exePath \notin DOMAIN files
       THEN /\ cli' = [cli EXCEPT !.pc = "done", !.result = Err("failed to stat")]
            /\ UNCHANGED <<files, made>>
       ELSE LET r == IF cli.pc = "backup"
                     THEN copyFile(files, files[exePath], cli.st.BackupPath, ok)
                     ELSE copyFile(files, [kind |-> "binary", build |-> cli.latest],
                                   cli.st.StagePath, ok)
            IN  /\ files' = r.fs
                /\ made' = IF r.err = Nil
                           THEN made \cup {IF cli.pc = "backup" THEN cli.st.BackupPath
                                           ELSE cli.st.StagePath}
                           ELSE made
                /\ cli' = IF r.err # Nil
                          THEN [cli EXCEPT !.pc = "done", !.result = r.err]
                          ELSE [cli EXCEPT !.pc = IF cli.pc = "backup" THEN "stage" ELSE "db"]
    /\ UNCHANGED <<monitorVars, page, storeVars>>

\* Line 146 and backupDBIfPresent (lines 305-338): links.db.json next to
\* the binary is copied to its timestamped backup, and both paths go into
\* the state; without a database both stay empty.
UpdateBackupDB(ok) ==
    /\ cli.name = "update" /\ cli.pc = "db"
    /\ LET dbPath == [name |-> "links.db.json", ts |-> 0]
           backupPath == [name |-> "links.db.json.bak", ts |-> cli.now]
           r == copyFile(files, files[dbPath], backupPath, ok)
       IN  IF dbPath \notin DOMAIN files
           THEN /\ cli' = [cli EXCEPT !.pc = "state"]
                /\ UNCHANGED <<files, made>>
           ELSE /\ files' = r.fs
                /\ made' = IF r.err = Nil THEN made \cup {backupPath} ELSE made
                /\ cli' = IF r.err # Nil
                          THEN [cli EXCEPT !.pc = "done", !.result = r.err]
                          ELSE [cli EXCEPT !.pc = "state", !.st.DBPath = dbPath,
                                           !.st.DBBackupPath = backupPath]
    /\ UNCHANGED <<monitorVars, page, storeVars>>

\* Lines 151-176 and writeJSONFileAtomic (lines 438-465): the state is
\* written to a temporary file that is renamed to the state path, or
\* removed when a step fails.
UpdateWriteState(ok) ==
    /\ cli.name = "update" /\ cli.pc = "state"
    /\ IF ok
       THEN /\ files' = [q \in DOMAIN files \cup {updateStatePath} |->
                            IF q = updateStatePath
                            THEN [kind |-> "state", build |-> "", state |-> cli.st]
                            ELSE files[q]]
            /\ cli' = [cli EXCEPT !.pc = "done", !.out = "staged"]
       ELSE /\ cli' = [cli EXCEPT !.pc = "done",
                                  !.result = Err("failed to write update state file")]
            /\ UNCHANGED files
    /\ UNCHANGED <<made, monitorVars, page, storeVars>>

\* runCompleteUpdate, lines 184-225: without a state file there is nothing
\* to do; with one, the staged binary must be there and be the build the
\* state names.
CompleteRead ==
    /\ cli.name = "complete-update" /\ cli.pc = "begin"
    /\ cli' = IF updateStatePath \notin DOMAIN files
              THEN [cli EXCEPT !.pc = "done", !.out = "no pending update"]
              ELSE LET st == files[updateStatePath].state
                   IN  IF st.StagePath \notin DOMAIN files
                       THEN [cli EXCEPT !.pc = "done", !.st = st,
                                        !.result = Err("failed to read build info from staged binary")]
                       ELSE IF files[st.StagePath].build # st.To
                       THEN [cli EXCEPT !.pc = "done", !.st = st,
                                        !.result = Err("staged binary does not match expected update")]
                       ELSE [cli EXCEPT !.pc = "remove", !.st = st]
    /\ UNCHANGED <<files, made, monitorVars, page, storeVars>>

\* promoteStagedBinary, lines 468-470: os.Remove of the target; a target
\* that is not there is no error.
PromoteRemove(ok) ==
    /\ cli.name = "complete-update" /\ cli.pc = "remove"
    /\ IF ok \/ cli.st.TargetPath \notin DOMAIN files
       THEN /\ files' = [q \in DOMAIN files \ {cli.st.TargetPath} |-> files[q]]
            /\ cli' = [cli EXCEPT !.pc = "rename"]
       ELSE /\ cli' = [cli EXCEPT !.pc = "done", !.result = Err("failed to remove old binary")]
            /\ UNCHANGED files
    /\ UNCHANGED <<made, monitorVars, page, storeVars>>

\* Lines 471-474: os.Rename of the staged binary onto the target.
PromoteRename_ContinueOnError(ok) ==
    /\ cli.name = "complete-update" /\ cli.pc = "rename"
    /\ IF ok /\ cli.st.StagePath \in DOMAIN files
       THEN files' = [q \in (DOMAIN files \ {cli.st.StagePath}) \cup {cli.st.TargetPath} |->
                         IF q = cli.st.TargetPath THEN files[cli.st.StagePath] ELSE files[q]]
       ELSE UNCHANGED files
    /\ cli' = [cli EXCEPT !.pc = "cleanup", !.k = 1]
    /\ UNCHANGED <<made, monitorVars, page, storeVars>>

PromoteRename(ok) ==
    /\ cli.name = "complete-update" /\ cli.pc = "rename"
    /\ IF ok /\ cli.st.StagePath \in DOMAIN files
       THEN /\ files' = [q \in (DOMAIN files \ {cli.st.StagePath}) \cup {cli.st.TargetPath} |->
                            IF q = cli.st.TargetPath THEN files[cli.st.StagePath] ELSE files[q]]
            /\ cli' = [cli EXCEPT !.pc = "cleanup", !.k = 1]
       ELSE /\ cli' = [cli EXCEPT !.pc = "done", !.result = Err("failed to promote")]
            /\ UNCHANGED files
    /\ UNCHANGED <<made, monitorVars, page, storeVars>>

\* cleanupUpdateArtifacts (lines 477-492): os.Remove of the binary backup,
\* of the database backup when the state names one, and of the state file,
\* in this order; a file that is not there is no error.
CleanupRemove_LeavesFile(ok) ==
    /\ cli.name = "complete-update" /\ cli.pc = "cleanup"
    /\ cli' = IF cli.k = 3 THEN [cli EXCEPT !.pc = "done", !.out = "completed"]
              ELSE [cli EXCEPT !.k = @ + 1]
    /\ ok
    /\ UNCHANGED <<files, made, monitorVars, page, storeVars>>

CleanupRemove(ok) ==
    /\ cli.name = "complete-update" /\ cli.pc = "cleanup"
    /\ LET path == CASE cli.k = 1 -> cli.st.BackupPath
                     [] cli.k = 2 -> cli.st.DBBackupPath
                     [] OTHER -> updateStatePath
       IN  IF ok \/ path \notin DOMAIN files
           THEN /\ files' = [q \in DOMAIN files \ {path} |-> files[q]]
                /\ cli' = IF cli.k = 3 THEN [cli EXCEPT !.pc = "done", !.out = "completed"]
                          ELSE [cli EXCEPT !.k = @ + 1]
           ELSE /\ cli' = [cli EXCEPT !.pc = "done", !.result = Err("failed to remove")]
                /\ UNCHANGED files
    /\ UNCHANGED <<made, monitorVars, page, storeVars>>

\* The server and the two commands, run one after another with the
\* installed binary; every file operation may fail.
NextCLI ==
    \/ ServeNewClient
    \/ \E name \in {"update", "complete-update"}, now \in 1..MaxStamp : CLIStart(name, now)
    \/ UpdatePending
    \/ \E latest \in {"", "v1", "v2"} : UpdateInstall(latest)
    \/ \E ok \in BOOLEAN : UpdateCopy(ok)
    \/ \E ok \in BOOLEAN : UpdateBackupDB(ok)
    \/ \E ok \in BOOLEAN : UpdateWriteState(ok)
    \/ CompleteRead
    \/ \E ok \in BOOLEAN : PromoteRemove(ok)
    \/ \E ok \in BOOLEAN : PromoteRename(ok)
    \/ \E ok \in BOOLEAN : CleanupRemove(ok)

SpecCLI == Init /\ [][NextCLI]_vars


\* ==================================================================== claims

\* ---- helpers of the claims
Last(q) == q[Len(q)]
PostSample == upd \in {"lock", "store", "append", "unlock"}
SameSnapshot(a, b) ==
    /\ a.HostIP = b.HostIP /\ a.UpdatedAt = b.UpdatedAt
    /\ a.CPU = b.CPU /\ a.Memory = b.Memory
    /\ a.Disks.items = b.Disks.items /\ a.GPUs.items = b.GPUs.items
    /\ a.Processes = b.Processes /\ a.TopCPU = b.TopCPU /\ a.TopMemory = b.TopMemory
    /\ a.Errors = b.Errors
PublishedStamps == {0} \cup {tickTimes[i] : i \in DOMAIN tickTimes}

\* C1: a Snapshot call, whatever the update in flight is doing, returns the
\* published snapshot as one completed tick left it: every field equals the
\* lock-protected m.snapshot at the moment of the read, its timestamp is one
\* that was published (or the initial 0), and with includeHistory the last
\* history point carries the returned UpdatedAt; outside the writer's
\* critical section m.snapshot and m.history always agree.
C1_SnapshotIsOnePublishedTick ==
    /\ (~mu.writer /\ Len(history) > 0) => Last(history).Time = snapshot.UpdatedAt
    /\ (rd.pc \in {"copied", "lists", "return"}) => rd.snap.UpdatedAt = snapshot.UpdatedAt
    /\ rd.pc = "return" =>
          /\ SameSnapshot(rd.snap, snapshot)
          /\ rd.snap.UpdatedAt \in PublishedStamps
          /\ rd.includeHistory =>
                IF Len(tickTimes) = 0
                THEN rd.snap.UpdatedAt = 0 /\ rd.snap.History.isNil
                ELSE /\ ~rd.snap.History.isNil
                     /\ Last(rd.snap.History.items).Time = rd.snap.UpdatedAt

\* A reader about to return a published tick with its history while the
\* next update() has sampled and waits for the lock.
C1_Witness ==
    /\ rd.pc = "return" /\ rd.includeHistory
    /\ upd = "lock" /\ mu.readers = 1
    /\ Len(tickTimes) >= 1 /\ rd.snap.UpdatedAt = Last(tickTimes)
    /\ tick.snap.UpdatedAt # rd.snap.UpdatedAt

\* C2: the retained history holds at most historyMaxPoints points and every
\* retained point is at most historyMaxAge older than the newest point, for
\* any sequence of tick timestamps.
C2_HistoryBounded ==
    /\ Len(history) <= historyMaxPoints
    /\ \A i \in DOMAIN history : history[i].Time >= Last(history).Time - historyMaxAge

\* ---- C3
TicksDone == Len(tickTimes)
OneSecondApart == \A i \in 1..(TicksDone - 1) : tickTimes[i + 1] = tickTimes[i] + 1
WithinMaxAge ==
    \A i, j \in DOMAIN tickTimes : i < j => tickTimes[j] - tickTimes[i] <= historyMaxAge

\* C3 as claimed: Snapshot(false) returns no history; Snapshot(true), after N
\* completed ticks one second apart with N below historyMaxPoints, returns
\* exactly N history entries.
C3_HistoryHasOneEntryPerTick ==
    rd.pc = "return" =>
        /\ ~rd.includeHistory => rd.snap.History.isNil
        /\ (rd.includeHistory /\ TicksDone < historyMaxPoints /\ OneSecondApart)
              => Len(rd.snap.History.items) = TicksDone

\* C3 as amended: Snapshot(false) returns no history; Snapshot(true), after N
\* completed ticks with N below historyMaxPoints and no tick stamped more
\* than historyMaxAge after an earlier one, returns exactly N entries.
C3_HistoryHasOneEntryPerTickWithinMaxAge ==
    rd.pc = "return" =>
        /\ ~rd.includeHistory => rd.snap.History.isNil
        /\ (rd.includeHistory /\ TicksDone < historyMaxPoints /\ WithinMaxAge)
              => Len(rd.snap.History.items) = TicksDone

\* Snapshot(true) about to return both points of two ticks a second apart.
C3_Witness ==
    /\ rd.pc = "return" /\ rd.includeHistory
    /\ TicksDone = 2 /\ WithinMaxAge /\ tickTimes[2] = tickTimes[1] + historyMaxAge
    /\ Len(rd.snap.History.items) = 2

\* ---- C4, C5, C6
TTLOf(f) ==
    CASE f = "hostIP" -> hostIPTTL
      [] f = "cpuStatic" -> cpuStaticTTL
      [] f = "cpuDynamic" -> cpuDynTTL
      [] f = "disks" -> disksSampleTTL
      [] f = "gpus" -> gpusSampleTTL
WithinTTL(f) ==
    /\ ~IsZero(tick.before[f].at)
    /\ tick.now - tick.before[f].at[1] < TTLOf(f)
\* The part of a snapshot that family f fills, and the same part of a
\* sampler value.
StaticView(c) == <<c.Model, c.PhysicalCores, c.LogicalCores>>
DynamicView(c) ==
    <<c.CurrentMHz, c.MaxMHz, c.CurrentPercentOfMax, c.TemperatureC, c.PerformanceCores,
      c.EfficiencyCores, c.PerformanceThreads, c.EfficiencyThreads>>
SnapshotPart(snap, f) ==
    CASE f = "hostIP" -> snap.HostIP
      [] f = "cpuStatic" -> StaticView(snap.CPU)
      [] f = "cpuDynamic" -> DynamicView(snap.CPU)
      [] f = "disks" -> snap.Disks
      [] f = "gpus" -> snap.GPUs
ValuePart(v, f) ==
    CASE f = "cpuStatic" -> StaticView(v)
      [] f = "cpuDynamic" -> DynamicView(v)
      [] OTHER -> v
SnapshotError(snap, f) ==
    CASE f = "hostIP" -> snap.Errors.HostIP
      [] f \in {"cpuStatic", "cpuDynamic"} -> snap.Errors.CPU
      [] f = "disks" -> snap.Errors.Disks
      [] f = "gpus" -> snap.Errors.GPUs

C4_UsesCache(f) ==
    IF f = "hostIP" THEN WithinTTL(f) /\ tick.before[f].val # "" ELSE WithinTTL(f)
C4_Stored(f) ==
    IF f \in {"disks", "gpus"} /\ tick.env[f].val.isNil /\ tick.env[f].err # Nil
    THEN tick.before[f].val ELSE tick.env[f].val
C5_FailureKeepsLastGood ==
    PostSample =>
        \A f \in Families :
            (Caches[f].err # Nil /\ lastGood[f] # <<>>) =>
                /\ SnapshotPart(tick.snap, f) = ValuePart(lastGood[f][1], f)
                /\ SnapshotError(tick.snap, f) # ""

\* C6: once a tick has published, if its snapshot reports a disks error while
\* the CPU-percent and memory samplers succeeded on that tick, the snapshot
\* carries the tick's CPU percent and memory stats, and the history ends
\* with the point derived from that snapshot.
C6_DiskFailureLeavesCPUAndMemory ==
    (upd = "unlock" /\ snapshot.Errors.Disks # ""
        /\ tick.cpuPercentErr = Nil /\ tick.memErr = Nil)
    => /\ snapshot.CPU.Percent = tick.cpuPercent
       /\ snapshot.Memory = tick.memStats
       /\ snapshot.Errors.Memory = ""
       /\ snapshot.UpdatedAt = tick.snap.UpdatedAt
       /\ Len(history) > 0
       /\ Last(history).Time = snapshot.UpdatedAt
       /\ Last(history).CPU = tick.cpuPercent
       /\ Last(history).Mem = tick.memStats.UsedPercent

\* A published tick whose disks sampler failed and whose snapshot shows a
\* non-zero CPU percent and the sampled memory.
C6_Witness ==
    /\ upd = "unlock" /\ snapshot.Errors.Disks # ""
    /\ tick.env.disks.err # Nil /\ tick.calls["disks"] = 1
    /\ tick.cpuPercentErr = Nil /\ tick.memErr = Nil
    /\ snapshot.CPU.Percent # FracZero /\ snapshot.Memory = MemoryGood
    /\ Last(history).Time = snapshot.UpdatedAt

\* ---- C7, C8, C9: the last sampleCPUPercent call
ReadOK == cpuRet.called /\ cpuRet.times.err = Nil /\ Len(cpuRet.times.list) > 0
ReadTotal == cpuTimesTotal(cpuRet.times.list[1])
ReadIdle == cpuRet.times.list[1].Idle + cpuRet.times.list[1].Iowait
TotalDelta == ReadTotal - cpuRet.before.prevTotal
IdleDelta == ReadIdle - cpuRet.before.prevIdle

\* C7: the first counter reading returns 0 without error and becomes the
\* baseline (havePrevCPU set, prevTotal and prevIdle the read counters).
C7_FirstSampleSeedsBaseline ==
    (ReadOK /\ ~cpuRet.before.havePrevCPU) =>
        /\ cpuRet.usage = FracZero /\ cpuRet.err = Nil
        /\ havePrevCPU /\ prevTotal = ReadTotal /\ prevIdle = ReadIdle

\* The first reading, of counters with busy time on them.
C7_Witness ==
    /\ ReadOK /\ ~cpuRet.before.havePrevCPU
    /\ ReadTotal > ReadIdle /\ ReadIdle > 0
    /\ havePrevCPU /\ prevTotal = ReadTotal

\* C8: with totalDelta > 0 the returned percent is
\* (totalDelta - idleDelta) / totalDelta * 100 clamped to [0, 100].
C8_BusyPercentClamped ==
    (ReadOK /\ cpuRet.before.havePrevCPU /\ TotalDelta > 0) =>
        LET u == cpuRet.usage
            busy == TotalDelta - IdleDelta
        IN  /\ cpuRet.err = Nil
            /\ u[2] > 0 /\ 0 <= u[1] /\ u[1] <= 100 * u[2]
            /\ busy < 0 => u[1] = 0
            /\ busy > TotalDelta => u[1] = 100 * u[2]
            /\ (0 <= busy /\ busy <= TotalDelta) => u[1] * TotalDelta = busy * 100 * u[2]

\* Two consecutive readings between which the idle counters went back, so
\* that the unclamped quotient is above 100.
C8_Witness ==
    /\ ReadOK /\ cpuRet.before.havePrevCPU
    /\ TotalDelta > 0 /\ IdleDelta < 0
    /\ cpuRet.usage = FracHundred

\* C9: with totalDelta <= 0 the call returns 0 without error and still
\* replaces the baseline by the counters it read.
C9_AnomalyReturnsZeroAndRebases ==
    (ReadOK /\ cpuRet.before.havePrevCPU /\ TotalDelta <= 0) =>
        /\ cpuRet.usage = FracZero /\ cpuRet.err = Nil
        /\ havePrevCPU /\ prevTotal = ReadTotal /\ prevIdle = ReadIdle

\* Counters that went backwards, now the baseline.
C9_Witness ==
    /\ ReadOK /\ cpuRet.before.havePrevCPU
    /\ TotalDelta < 0 /\ IdleDelta # 0
    /\ prevTotal = ReadTotal /\ prevIdle = ReadIdle /\ cpuRet.usage = FracZero

\* C10: once the stop channel is closed the ticker loop starts no further
\* update().
C10_NoTickAfterStop ==
    [][stop => ~(pc \in {"select", "parked"} /\ pc' = "tick_update")]_vars

\* C11: Start does the first sampling at once, and returns to its caller
\* without doing sampling work itself: the caller is never inside Start
\* with an update() that has sampled.
C11_StartReturnsWithoutSampling ==
    pc = "start_update" => ~PostSample

\* What a caller holds is what it was given, unless it wrote to it itself.
Kept(c, Deref(_, _), part(_)) ==
    (callers[c] # Nil /\ Given(c).writes = {}) =>
        Deref(heap, part(Given(c).ref)) = part(Given(c).val)
HistoryOf(snap) == snap.History
AllOf(snap) == snap

\* C12: the history Snapshot(true) returns is a deep copy: a caller writing
\* to its copy, points and per-mount maps alike, changes neither the
\* engine's history nor another caller's copy, and the engine's later
\* appends and trims change no copy already returned.
C12_HistoryIsDeepCopy ==
    /\ DerefPoints(heap, mref.history) = history
    /\ \A c \in Callers : Kept(c, DerefHistory, HistoryOf)

\* The writer has written into a per-mount map of its copy, the holder
\* holds a history, and the engine has since appended and trimmed away the
\* holder's first point.
C12_Witness ==
    /\ callers["writer"] # Nil /\ callers["holder"] # Nil
    /\ "history disks" \in Given("writer").writes
    /\ Given("holder").ref.History.len > 1
    /\ Given("holder").at < Len(tickTimes)
    /\ Len(history) > 0
    /\ Given("holder").val.History.items[1].Time < history[1].Time

\* C15: in the snapshot of a tick errors.F is non-empty exactly when family
\* F's own sampling failed: errors.cpu exactly when the CPU percent, the
\* static or the dynamic CPU read failed, whatever the process-count and
\* top-process scans did; errors.memory, errors.disks, errors.gpus and
\* errors.hostIP exactly when that family's read failed.
C15_ErrorsNameTheirOwnFamily ==
    PostSample =>
        LET e == tick.snap.Errors
        IN  /\ e.CPU # "" <=> (tick.cpuPercentErr # Nil \/ cpuStaticErr # Nil
                                 \/ cpuDynamicErr # Nil)
            /\ e.Memory # "" <=> tick.memErr # Nil
            /\ e.Disks # "" <=> disksErr # Nil
            /\ e.GPUs # "" <=> gpusErr # Nil
            /\ e.HostIP # "" <=> hostIPErr # Nil

\* C16: merging the vendor tool's rows into the inventory: an inventory of
\* one NVIDIA entry and one row give exactly one entry, with the
\* inventory's vendor and the row's utilization, memory used, memory total
\* and temperature; an empty inventory and one row give exactly one entry,
\* vendor "NVIDIA", built from the row.
RowFigures(g, row) ==
    /\ g.UtilizationPercent = <<row.UtilPercent>>
    /\ g.MemoryUsedBytes = <<row.MemUsedBytes>>
    /\ g.MemoryTotalBytes = <<row.MemTotalBytes>>
    /\ g.TemperatureC = <<row.TempC>>

OneNvidiaEntryOneRow ==
    /\ gpusRet.called
    /\ Len(gpusRet.base) = 1 /\ isNvidia(gpusRet.base[1].Vendor)
    /\ Len(gpusRet.rows) = 1

C16_MergeOneRow ==
    /\ OneNvidiaEntryOneRow =>
           /\ Len(gpusRet.val.items) = 1
           /\ gpusRet.val.items[1].Vendor = gpusRet.base[1].Vendor
           /\ RowFigures(gpusRet.val.items[1], gpusRet.rows[1])
    /\ (gpusRet.called /\ Len(gpusRet.base) = 0 /\ Len(gpusRet.rows) = 1) =>
           /\ Len(gpusRet.val.items) = 1
           /\ gpusRet.val.items[1].Vendor = "NVIDIA"
           /\ gpusRet.val.items[1].Name = gpusRet.rows[1].Name
           /\ RowFigures(gpusRet.val.items[1], gpusRet.rows[1])

\* sampleGPUs has merged one row into an inventory of one entry of vendor
\* "NVIDIA".
C16_Witness ==
    /\ OneNvidiaEntryOneRow
    /\ gpusRet.base[1].Vendor = "NVIDIA"
    /\ ~gpusRet.val.isNil

\* The rows that have a place in the list: all of them when the inventory
\* has no NVIDIA entry, else as many as it has NVIDIA entries.
RowsPlaced ==
    IF Len(nvidiaIdx(gpusRet.base, 1)) = 0 THEN Len(gpusRet.rows)
    ELSE IF Len(gpusRet.rows) < Len(nvidiaIdx(gpusRet.base, 1)) THEN Len(gpusRet.rows)
    ELSE Len(nvidiaIdx(gpusRet.base, 1))

\* C17: when the inventory and the vendor tool both fail and there is
\* nothing to return, sampleGPUs returns no list and one error that cites
\* both failures; when exactly one of them fails, what the other one
\* delivered is returned, without an error.
C17_GPUSourcesFailSeparately ==
    gpusRet.called =>
        /\ (gpusRet.ghwErr # Nil /\ gpusRet.smiErr # Nil /\ Len(gpusRet.base) = 0) =>
               /\ gpusRet.val = NilSlice
               /\ gpusRet.err = Err("gpu: ghw=" \o ErrorOf(gpusRet.ghwErr)
                                    \o "; nvidia-smi=" \o ErrorOf(gpusRet.smiErr))
        /\ (gpusRet.ghwErr = Nil /\ gpusRet.smiErr # Nil) =>
               /\ gpusRet.err = Nil
               /\ gpusRet.val.items = gpusRet.base
        /\ (gpusRet.ghwErr # Nil /\ gpusRet.smiErr = Nil) =>
               /\ gpusRet.err = Nil
               /\ \A i \in 1..RowsPlaced :
                      \E k \in 1..Len(gpusRet.val.items) :
                          RowFigures(gpusRet.val.items[k], gpusRet.rows[i])

\* The inventory failed, the tool delivered a row, and the row is in the
\* list sampleGPUs returned.
C17_Witness ==
    /\ gpusRet.called
    /\ gpusRet.ghwErr # Nil /\ gpusRet.smiErr = Nil
    /\ Len(gpusRet.rows) > 0
    /\ Len(gpusRet.val.items) > 0

\* The disk list sampleDisks returned has an entry for the mount mp.
HasMount(list, mp) == \E i \in 1..Len(list.items) : list.items[i].Mountpoint = mp

\* C18: on linux the list sampleDisks returns always has an entry for "/",
\* whatever the partition table and whatever the usage queries answer.
C18_RootAlwaysListed ==
    (disksRet.called /\ disksRet.parts.err = Nil) => HasMount(disksRet.val, "/")

\* The entry of mount mp in a disk list, and the figures disk.Usage gave.
EntryOf(list, mp) ==
    list.items[CHOOSE i \in 1..Len(list.items) : list.items[i].Mountpoint = mp]
UsageFigures(e, mp) ==
    /\ e.TotalBytes = UsageOf(mp).Total
    /\ e.UsedBytes = UsageOf(mp).Used
    /\ e.UsedPercent = UsageOf(mp).UsedPercent

\* The tick in flight called sampleDisks, which read the partition table.
DisksSampled == PostSample /\ tick.calls["disks"] = 1 /\ disksRet.parts.err = Nil

\* The selected mounts whose usage query answered and for which the
\* inventory failed or has no entry.
MetadataGap(mp) ==
    /\ mp \in disksRet.selected \ disksRet.failing
    /\ (disksRet.metaErr # Nil \/ disksRet.meta.isNil \/ mp \notin DOMAIN disksRet.meta.m)

\* The list sampleDisks returned with an error is the cached list, is in
\* the tick's snapshot with the error, and is the published list once
\* update() has stored the snapshot.
ListKeptWithError ==
    disksRet.err # Nil =>
        /\ disksCache = disksRet.val
        /\ tick.snap.Disks = disksRet.val
        /\ tick.snap.Errors.Disks = ErrorOf(disksRet.err)
        /\ (upd \in {"append", "unlock"} => snapshot.Disks = disksRet.val)

\* C19 as stated: a selected mount for which the inventory failed or has no
\* entry is in the list with its usage figures and with drive type and
\* model empty, and the list is cached and published with the error.
C19_MetadataGapKeepsMount ==
    DisksSampled =>
        /\ \A mp \in disksRet.selected :
               MetadataGap(mp) =>
                   /\ HasMount(disksRet.val, mp)
                   /\ UsageFigures(EntryOf(disksRet.val, mp), mp)
                   /\ EntryOf(disksRet.val, mp).DriveType = ""
                   /\ EntryOf(disksRet.val, mp).Model = ""
        /\ ListKeptWithError

\* C19 amended: drive type and model are empty unless the inventory failed
\* and the map an earlier inventory left has an entry for the mount, whose
\* drive type and model the entry then carries.
StaleEntry(mp) == ~disksRet.meta.isNil /\ mp \in DOMAIN disksRet.meta.m

C19_MetadataGapKeepsMountWithLastKnownMeta ==
    DisksSampled =>
        /\ \A mp \in disksRet.selected :
               MetadataGap(mp) =>
                   /\ HasMount(disksRet.val, mp)
                   /\ UsageFigures(EntryOf(disksRet.val, mp), mp)
                   /\ EntryOf(disksRet.val, mp).DriveType =
                          IF StaleEntry(mp) THEN disksRet.meta.m[mp].DriveType ELSE ""
                   /\ EntryOf(disksRet.val, mp).Model =
                          IF StaleEntry(mp) THEN disksRet.meta.m[mp].Model ELSE ""
        /\ ListKeptWithError

\* The inventory has failed on a monitor that never had one, "/" is in the
\* list with its usage figures and no drive type, and update() has
\* published the list together with the error.
C19_Witness ==
    /\ DisksSampled /\ upd = "unlock"
    /\ disksRet.metaErr # Nil /\ disksRet.meta.isNil
    /\ HasMount(snapshot.Disks, "/")
    /\ EntryOf(snapshot.Disks, "/").DriveType = ""
    /\ EntryOf(snapshot.Disks, "/").UsedPercent = UsageOf("/").UsedPercent
    /\ snapshot.Errors.Disks # ""

\* The tick in flight is one whose vendor tool was cancelled at its deadline.
ToolCancelled ==
    PostSample /\ tick.calls["gpus"] = 1 /\ gpusRet.smiErr = DeadlineExceeded

\* C20: a vendor tool that does not answer is cancelled when its timeout
\* has passed, not before; the cancellation is a failure of the GPU family
\* alone (the tick's snapshot has every other family's data and no other
\* error, its GPU list and GPU error are what sampleGPUs returned); and the
\* tick that waited for the tool still publishes.
C20_HungToolStillPublishes ==
    /\ [](ToolCancelled =>
             /\ clock >= tick.now + nvidiaSMITimeout
             /\ tick.snap.Errors = [ZeroSnapshotError EXCEPT !.GPUs = errorString(gpusRet.err)]
             /\ tick.snap.GPUs = gpusRet.val
             /\ tick.snap.CPU.Model = CPUStaticGood.Model
             /\ tick.snap.Memory = MemoryGood
             /\ tick.snap.Disks = HealthyEnv.disks.val)
    /\ (upd = "smi_wait" /\ smi.deadline <= MaxClock)
           ~> (upd = "unlock" /\ snapshot = tick.snap /\ Last(tickTimes) = tick.snap.UpdatedAt)

\* A tick whose tool was cancelled, with the inventory failing too, has
\* published its snapshot with the GPU error in it.
C20_Witness ==
    /\ upd = "idle"
    /\ gpusRet.smiErr = DeadlineExceeded
    /\ Len(tickTimes) > 0
    /\ snapshot.Errors.GPUs = errorString(gpusRet.err)
    /\ snapshot.Errors.GPUs # ""

\* What Snapshot returns, from the published snapshot and the history alone.
snapshotResult(includeHistory) ==
    [snapshot EXCEPT !.Disks = AppendToNil(@), !.GPUs = AppendToNil(@),
                     !.History = IF includeHistory THEN cloneHistory(history) ELSE @]

\* C14: Snapshot leaves the engine's state as it is: every step of a
\* Snapshot call is taken under the read lock, changes no family's cache,
\* no CPU baseline, neither the published snapshot nor the history, and
\* what it returns is made of the published snapshot and the history only,
\* also while the caches already hold a newer sample.
C14_SnapshotReadsOnlyPublished ==
    [][rd' # rd =>
          /\ UNCHANGED <<cacheVars, cpuVars, snapshot, history, tickTimes>>
          /\ (rd'.pc # "idle" => mu'.readers > 0 /\ ~mu'.writer)
          /\ (rd'.pc = "return" => rd'.snap = snapshotResult(rd'.includeHistory))]_vars

\* A Snapshot call is about to return while the disk cache holds a list the
\* published snapshot does not have yet.
C14_Witness ==
    /\ rd.pc = "return"
    /\ disksCache # snapshot.Disks
    /\ rd.snap.Disks = AppendToNil(snapshot.Disks)

\* C13: every Snapshot result is an independent deep copy: a caller writing
\* to anything reachable from its result changes neither the engine's
\* published snapshot nor what another caller was given.
C13_SnapshotIsDeepCopy ==
    /\ DerefSnapshot(heap, mref.snapshot) = snapshot
    /\ \A c \in Callers : Kept(c, DerefSnapshot, AllOf)

\* C21: every update() that has started publishes its snapshot, whichever
\* samplers fail in it, and the ticker goroutine returns only after the stop
\* channel was closed.
C21_TicksPublishDespiteErrors ==
    /\ [](pc = "done" => stop)
    /\ (upd = "sample")
           ~> (upd = "unlock" /\ snapshot = tick.snap /\ Last(tickTimes) = tick.snap.UpdatedAt)

\* A tick in which every sampler failed has published, a later tick has
\* published after it, and the stop channel is still open.
C21_Witness ==
    /\ ~stop /\ upd = "idle" /\ Len(tickTimes) >= 2
    /\ \E i \in 1..(Len(history) - 1) : history[i].Time < snapshot.UpdatedAt
    /\ snapshot.Errors.CPU # "" /\ snapshot.Errors.Memory # ""
    /\ snapshot.Errors.Disks # "" /\ snapshot.Errors.GPUs # ""
    /\ snapshot.Errors.HostIP # ""

\* C22: the process sampleTopProcesses returns as TopCPU had an entry in
\* the per-process CPU-time table of the previous scan (so none is returned
\* by the first scan, and a new PID is never returned), and its CPUPercent
\* is the growth of its CPU time (0 when negative) / elapsed seconds * 100 /
\* logical cores, cut to [0, 100]; the tick's snapshot carries that sample.
C22_TopCPUNeedsPreviousSample ==
    topRet.called =>
        /\ PostSample => tick.snap.TopCPU = topRet.cpu
        /\ topRet.cpu # Nil =>
              LET top == topRet.cpu[1]
                  p == CHOOSE q \in {topRet.procs[i] : i \in 1..Len(topRet.procs)} :
                           q.Pid = top.PID
                  delta == IF p.times[1] < topRet.prev[top.PID] THEN 0
                           ELSE p.times[1] - topRet.prev[top.PID]
                  cores == IF topRet.cores > 0 THEN topRet.cores ELSE NumCPU
                  pct == Frac(delta * 100, (topRet.now - topRet.last[1]) * cores)
              IN  /\ top.PID \in DOMAIN topRet.prev
                  /\ ~IsZero(topRet.last)
                  /\ \E i \in 1..Len(topRet.procs) : topRet.procs[i].Pid = top.PID
                  /\ top.CPUPercent = IF FracLess(FracHundred, pct) THEN FracHundred ELSE pct
                  /\ ~FracLess(top.CPUPercent, FracZero)
                  /\ ~FracLess(FracHundred, top.CPUPercent)

\* A scan found a process it had not seen before next to one it had, the
\* new one with the larger CPU time, and returned the known one, its
\* percent cut to 100.
C22_Witness ==
    /\ topRet.called /\ topRet.cpu # Nil
    /\ topRet.cpu[1].CPUPercent = FracHundred
    /\ \E i \in 1..Len(topRet.procs) :
          /\ topRet.procs[i].Pid \notin DOMAIN topRet.prev
          /\ topRet.procs[i].times # Nil
          /\ topRet.procs[i].times[1] >= MaxCounter

\* C23: whenever the snapshot the dashboard last rendered has a non-empty
\* CPU error, the CPU percent field shows "-", and whenever it has a
\* non-empty memory error, the three memory fields show "-": none shows a
\* number.
C23_FailedFamilyRendersDash ==
    page.received =>
        /\ page.errors.CPU # "" => page.cpuPercent.kind = "-"
        /\ page.errors.Memory # "" =>
              /\ page.memUsed.kind = "-" /\ page.memTotal.kind = "-"
              /\ page.memPercent.kind = "-"

\* C24: the history point a tick appends is the last point of the history
\* and has Time, CPU and Mem equal to UpdatedAt, the CPU percent and the
\* memory used percent of the tick's snapshot; the keys of its Disks are
\* exactly the non-empty mountpoints of the snapshot's disk list, each with
\* that disk's used percent, and it has no map when there is no such disk.
C24_HistoryPointOfTick ==
    upd = "unlock" =>
        LET hp == Last(history)
            ds == tick.snap.Disks.items
            mounts == {ds[i].Mountpoint : i \in 1..Len(ds)} \ {""}
        IN  /\ Len(history) > 0
            /\ hp.Time = tick.snap.UpdatedAt
            /\ hp.CPU = tick.snap.CPU.Percent
            /\ hp.Mem = tick.snap.Memory.UsedPercent
            /\ DOMAIN hp.Disks = mounts
            /\ \A i \in 1..Len(ds) :
                  ds[i].Mountpoint # "" => hp.Disks[ds[i].Mountpoint] = ds[i].UsedPercent
            /\ mounts = {} => hp.Disks = <<>>

\* A tick appended a point with two mounts after a point that had a mount
\* the snapshot of this tick no longer lists.
C24_Witness ==
    /\ upd = "unlock" /\ Len(history) >= 2
    /\ Cardinality(DOMAIN Last(history).Disks) >= 2
    /\ \E mp \in DOMAIN history[Len(history) - 1].Disks : mp \notin DOMAIN Last(history).Disks

\* C25: the entries of every GPU list sampleGPUs returns have pairwise
\* distinct Index values, also when entries are made from the rows of the
\* vendor tool next to inventory entries of another vendor.
C25_DistinctGPUIndex ==
    gpusRet.called =>
        \A i, k \in 1..Len(gpusRet.val.items) :
            i # k => gpusRet.val.items[i].Index # gpusRet.val.items[k].Index

\* C27: under every interleaving of SaveLink and DeleteLink calls the list
\* has at most one link per URL; the write of a SaveLink replaces the entry
\* of its URL at its position when there is one and appends otherwise; the
\* write of a DeleteLink cuts the entry of its URL out and leaves the list
\* as it is when there is none; no other step changes the list.
C27_UpsertByURL ==
    /\ [](\A i, k \in 1..Len(links) : i # k => links[i].Url # links[k].Url)
    /\ [][\A g \in Handlers :
             LET r == reqs[g]
                 at == {i \in 1..Len(links) : links[i].Url = r.link.Url}
                 i == CHOOSE j \in at : TRUE
             IN  IF r.pc = "write" /\ reqs'[g].pc = "unlock"
                 THEN IF r.op = "save"
                      THEN IF at # {} THEN links' = [links EXCEPT ![i] = r.link]
                           ELSE links' = Append(links, r.link)
                      ELSE IF at # {}
                           THEN /\ Len(links') = Len(links) - 1
                                /\ \A k \in 1..Len(links') :
                                       links'[k] = IF k < i THEN links[k] ELSE links[k + 1]
                           ELSE links' = links
                 ELSE (\A h \in Handlers : ~(reqs[h].pc = "write" /\ reqs'[h].pc = "unlock"))
                          => links' = links]_vars

\* A SaveLink call with a new URL has appended its link behind the link
\* of another URL and still holds the mutex.
C27_Witness ==
    /\ Len(links) = 2
    /\ reqs["h1"].pc = "unlock" /\ reqs["h1"].op = "save"
    /\ reqs["h1"].link.Url = "b" /\ links[2] = reqs["h1"].link
    /\ reqs["h2"].pc = "idle"

\* C26: when `update` has succeeded, the binary at the target path is the
\* one that ran it, a copy of it is at the backup path, the new build is at
\* the stage path, the database found by the run has its backup, and the
\* state file holds these paths; a database that is there when the run
\* looks for it is backed up; when a following `complete-update` has
\* succeeded, the target path holds the staged build and neither the binary
\* backup nor the database backup nor the state file exists.
C26_UpdateLifecycle ==
    /\ []((cli.name = "update" /\ cli.pc = "done" /\ cli.out = "staged") =>
             /\ {exePath, cli.st.BackupPath, cli.st.StagePath, updateStatePath}
                    \subseteq DOMAIN files
             /\ files[exePath] = [kind |-> "binary", build |-> cli.cur]
             /\ files[cli.st.BackupPath] = files[exePath]
             /\ files[cli.st.StagePath] = [kind |-> "binary", build |-> cli.latest]
             /\ cli.latest # cli.cur
             /\ cli.st.DBPath # NoCommand.st.DBPath =>
                    /\ cli.st.DBBackupPath \in DOMAIN files
                    /\ files[cli.st.DBBackupPath].kind = "db"
             /\ files[updateStatePath].state = cli.st
             /\ cli.st.TargetPath = exePath)
    /\ [][(cli.pc = "db" /\ cli'.pc = "state"
              /\ [name |-> "links.db.json", ts |-> 0] \in DOMAIN files) =>
             /\ cli'.st.DBPath = [name |-> "links.db.json", ts |-> 0]
             /\ cli'.st.DBBackupPath \in DOMAIN files' \ DOMAIN files]_vars
    /\ []((cli.name = "complete-update" /\ cli.pc = "done" /\ cli.out = "completed") =>
             /\ exePath \in DOMAIN files
             /\ files[exePath] = [kind |-> "binary", build |-> cli.st.To]
             /\ cli.st.BackupPath \notin DOMAIN files
             /\ cli.st.DBBackupPath \notin DOMAIN files
             /\ updateStatePath \notin DOMAIN files)

\* An update from v1 to v2, with its database backup, has been completed
\* and has left nothing but the new binary and the database.
C26_Witness ==
    /\ cli.name = "complete-update" /\ cli.pc = "done" /\ cli.out = "completed"
    /\ cli.st.From = "v1" /\ files[exePath].build = "v2"
    /\ Cardinality(DOMAIN files) = 2
    /\ cli.st.DBBackupPath # NoCommand.st.DBBackupPath

\* C28: an `update` that finds the state file of a pending update ends at
\* once with the error "update already pending" and neither creates nor
\* changes a file; and no step of any `update` changes a state file that
\* exists.
C28_PendingUpdateRefused ==
    /\ [][(cli.name = "update" /\ cli.pc = "begin" /\ cli' # cli
              /\ updateStatePath \in DOMAIN files) =>
             /\ cli'.pc = "done" /\ cli'.result = Err("update already pending")
             /\ files' = files]_vars
    /\ [][(cli.name = "update" /\ updateStatePath \in DOMAIN files) =>
             /\ updateStatePath \in DOMAIN files'
             /\ files'[updateStatePath] = files[updateStatePath]
             /\ cli' # cli => files' = files]_vars

\* An `update` has been refused while the staged binary of the pending
\* update is waiting.
C28_Witness ==
    /\ cli.name = "update" /\ cli.pc = "done"
    /\ cli.result = Err("update already pending")
    /\ updateStatePath \in DOMAIN files
    /\ files[updateStatePath].state.StagePath \in DOMAIN files

\* C29: whenever the state file exists, the binary backup and the staged
\* binary it names, and the database backup when it names a database, were
\* created by the run that wrote it; the state file appears in the last
\* step of a run only, with these files in place; a run that ends with an
\* error after its pending check leaves no state file.
C29_StateFileWrittenLast ==
    /\ [](updateStatePath \in DOMAIN files =>
             LET st == files[updateStatePath].state
             IN  /\ st.BackupPath \in made /\ st.StagePath \in made
                 /\ st.DBPath # NoCommand.st.DBPath => st.DBBackupPath \in made)
    /\ [][(updateStatePath \notin DOMAIN files /\ updateStatePath \in DOMAIN files') =>
             /\ cli.name = "update" /\ cli.pc = "state" /\ cli'.pc = "done"
             /\ cli'.result = Nil
             /\ {cli.st.BackupPath, cli.st.StagePath} \subseteq DOMAIN files'
             /\ cli.st.DBPath # NoCommand.st.DBPath => cli.st.DBBackupPath \in DOMAIN files']_vars
    /\ [][(cli.name = "update" /\ cli.pc \notin {"begin", "done"} /\ cli'.pc = "done"
              /\ cli'.result # Nil) => updateStatePath \notin DOMAIN files']_vars

\* The state file of a run that made a binary backup, a staged binary and
\* a database backup, after an earlier run had failed and left its backup.
C29_Witness ==
    /\ cli.name = "update" /\ cli.out = "staged"
    /\ updateStatePath \in DOMAIN files
    /\ Cardinality(made) = 3
    /\ \E q \in DOMAIN files : q.name = "linksserver.backup" /\ q \notin made

\* C30: the target binary or the binary backup of the pending update
\* exists in every state; a binary backup is removed only by the cleanup
\* of `complete-update`, with the staged build at the target path; the
\* state file is removed only when the backups it names are gone.
C30_TargetOrBackupExists ==
    /\ [](\/ exePath \in DOMAIN files
          \/ /\ updateStatePath \in DOMAIN files
             /\ files[updateStatePath].state.BackupPath \in DOMAIN files)
    /\ [][\A q \in DOMAIN files \ DOMAIN files' :
             /\ q.name = "linksserver.backup" =>
                    /\ cli.name = "complete-update" /\ cli.pc = "cleanup"
                    /\ q = cli.st.BackupPath
                    /\ cli.st.StagePath \notin DOMAIN files
                    /\ exePath \in DOMAIN files /\ files[exePath].build = cli.st.To
             /\ q = updateStatePath =>
                    /\ cli.st.BackupPath \notin DOMAIN files
                    /\ cli.st.DBBackupPath \notin DOMAIN files]_vars

\* A promotion has failed after the target was removed: the backup and
\* the staged binary are there, the target is not.
C30_Witness ==
    /\ cli.name = "complete-update" /\ cli.pc = "done"
    /\ cli.result = Err("failed to promote")
    /\ exePath \notin DOMAIN files
    /\ {cli.st.BackupPath, cli.st.StagePath} \subseteq DOMAIN files

\* C31: on a tick that finds the cached host IP empty, preferredHostIP is
\* invoked whatever the age of the cache; on a tick that finds an address
\* cached, it is invoked exactly when the last refresh is hostIPTTL or more
\* back, and otherwise the cached address, error and refresh time stay.
C31_EmptyHostIPResampledEveryTick ==
    PostSample =>
        LET before == tick.before["hostIP"]
        IN  /\ before.val = "" =>
                   /\ tick.calls["hostIP"] = 1
                   /\ hostIP = tick.env.hostIP.val /\ hostIPUpdatedAt = At(tick.now)
            /\ before.val # "" =>
                   /\ ~IsZero(before.at)
                   /\ tick.calls["hostIP"] = 1 <=> tick.now - before.at[1] >= hostIPTTL
                   /\ tick.calls["hostIP"] = 0 =>
                          /\ hostIP = before.val /\ hostIPUpdatedAt = before.at
                          /\ hostIPErr = before.err

\* A tick re-sampled the host IP although the last refresh, which had
\* found no address, was less than the TTL back.
C31_Witness ==
    /\ PostSample
    /\ tick.before["hostIP"].val = "" /\ WithinTTL("hostIP")
    /\ tick.calls["hostIP"] = 1 /\ hostIP # ""

C33_FailedReadKeepsBaseline ==
    /\ []((cpuRet.called /\ (cpuRet.times.err # Nil \/ Len(cpuRet.times.list) = 0)) =>
             /\ cpuRet.usage = FracZero /\ cpuRet.err = cpuRet.times.err
             /\ CPUState = cpuRet.before)
    /\ [][(cpuRet'.called /\ cpuRet' # cpuRet
              /\ (cpuRet'.times.err # Nil \/ Len(cpuRet'.times.list) = 0)) =>
             /\ cpuRet'.before = CPUState
             /\ UNCHANGED <<prevTotal, prevIdle, havePrevCPU>>]_vars
    /\ [][(cpuRet'.called /\ cpuRet'.times.err = Nil /\ Len(cpuRet'.times.list) > 0
              /\ cpuRet.called /\ (cpuRet.times.err # Nil \/ Len(cpuRet.times.list) = 0)) =>
             /\ cpuRet'.before = cpuRet.before
             /\ havePrevCPU'
             /\ ~cpuRet.before.havePrevCPU => cpuRet'.usage = FracZero
             /\ cpuRet.before.havePrevCPU =>
                    cpuRet'.usage = cpuUsage(prevTotal' - cpuRet.before.prevTotal,
                                             prevIdle' - cpuRet.before.prevIdle)]_vars

\* cpu.Times has failed on a call made with a baseline of counters read
\* earlier; the call returned 0 with the error and the baseline is still
\* there.
C33_Witness ==
    /\ cpuRet.called /\ cpuRet.times.err # Nil
    /\ cpuRet.before.havePrevCPU /\ cpuRet.before.prevTotal > cpuRet.before.prevIdle
    /\ cpuRet.usage = FracZero /\ cpuRet.err # Nil
    /\ havePrevCPU /\ prevTotal = cpuRet.before.prevTotal /\ prevIdle = cpuRet.before.prevIdle

\* C34: merging r rows of the vendor tool into an inventory with at least
\* one NVIDIA entry (the vendor contains "nvidia" in any case): the list
\* returned has the inventory's length and order; the NVIDIA entry with i
\* NVIDIA entries before it carries the figures of row i + 1 when there is
\* such a row, keeps its index, vendor and driver, and keeps its name unless
\* the name is blank; every other entry, and every NVIDIA entry without a
\* row, is the inventory's entry unchanged; rows beyond the number of NVIDIA
\* entries appear nowhere.
C34_RowsOverlayNvidiaEntriesInOrder ==
    LET base == gpusRet.base
        rows == gpusRet.rows
        out == gpusRet.val.items
        tagged(pos) == isNvidia(base[pos].Vendor)
        before(pos) == Cardinality({q \in 1..(pos - 1) : tagged(q)})
    IN  (gpusRet.called /\ \E pos \in 1..Len(base) : tagged(pos)) =>
            /\ ~gpusRet.val.isNil /\ gpusRet.err = Nil
            /\ Len(out) = Len(base)
            /\ \A pos \in 1..Len(base) :
                   IF tagged(pos) /\ before(pos) < Len(rows)
                   THEN /\ RowFigures(out[pos], rows[before(pos) + 1])
                        /\ out[pos].Index = base[pos].Index
                        /\ out[pos].Vendor = base[pos].Vendor
                        /\ out[pos].Driver = base[pos].Driver
                        /\ out[pos].Name = IF TrimSpace(base[pos].Name) = ""
                                           THEN rows[before(pos) + 1].Name
                                           ELSE base[pos].Name
                   ELSE out[pos] = base[pos]

\* sampleGPUs has merged two different rows into an inventory of two NVIDIA
\* entries: each entry has its own row and its own name.
C34_Witness ==
    /\ gpusRet.called
    /\ Len(gpusRet.base) = 2 /\ Len(gpusRet.rows) = 2
    /\ nvidiaIdx(gpusRet.base, 1) = <<1, 2>>
    /\ gpusRet.rows[1] # gpusRet.rows[2]
    /\ RowFigures(gpusRet.val.items[1], gpusRet.rows[1])
    /\ RowFigures(gpusRet.val.items[2], gpusRet.rows[2])
    /\ gpusRet.val.items[1].Name = "GeForce"
    /\ gpusRet.val.items[2].Name = "Nvidia Corp"

\* C35: after one call of Start the executions of update() never overlap.
\* An execution begins only when none is in progress, and one is in
\* progress exactly while Start or the ticker task is inside its call of
\* update(); the ticker task exists only after the first update() has
\* returned and has appended its point; the caches and the CPU baseline
\* change only in the sampling step of the execution in progress; the write
\* lock is held exactly by the execution in progress between its Lock and
\* its Unlock, and the snapshot and the history change only under it with
\* no reader inside.
C35_UpdatesNeverOverlap ==
    /\ [][(upd' = "sample" /\ upd # "sample") => (upd = "idle" /\ ~mu.writer)]_vars
    /\ [](upd # "idle" <=> pc \in {"start_update", "tick_update"})
    /\ [](pc \in {"select", "parked", "tick_update"} =>
              /\ Len(tickTimes) >= 1
              /\ snapshot # ZeroSnapshot)
    /\ [][(pc = "start_spawn" /\ pc' # pc) => (upd = "idle" /\ upd' = "idle" /\ pc' = "select")]_vars
    /\ [](mu.writer <=> upd \in {"store", "append", "unlock"})
    /\ [](mu.writer => mu.readers = 0)
    /\ [][<<cpuVars, cacheVars>>' # <<cpuVars, cacheVars>> =>
              (upd = "sample" /\ upd' = "lock")]_vars
    /\ [][<<snapshot, history>>' # <<snapshot, history>> =>
              (mu.writer /\ upd \in {"store", "append"})]_vars

\* The ticker task is inside update() with the write lock held, the first
\* update() of Start behind it, and the next tick is already waiting in the
\* ticker's channel: no second execution has been started for it.
C35_Witness ==
    /\ pc = "tick_update" /\ upd = "store" /\ mu.writer
    /\ tickPending
    /\ Len(tickTimes) >= 1
    /\ snapshot # tick.snap

\* C36: once Start has returned (the ticker task exists) the first snapshot
\* is published: the published snapshot has a non-zero UpdatedAt and the
\* history has a point; what a Snapshot call has copied has a non-zero
\* UpdatedAt, and a call with includeHistory returns a history of at least
\* one point.  The empty snapshot of a new monitor is in a caller's hands
\* only while Start has not been called or is still inside its update().
\* The wall clock reads a time after the Unix epoch.
C36_FirstSnapshotPublishedWhenStartReturns ==
    LET returned == pc \in {"select", "parked", "tick_update", "done"}
        copied == rd.pc \in {"copied", "lists", "return"}
    IN  /\ returned => (snapshot.UpdatedAt # 0 /\ Len(history) >= 1)
        /\ (returned /\ copied) => rd.snap.UpdatedAt # 0
        /\ (returned /\ rd.pc = "return" /\ rd.includeHistory) =>
               (~rd.snap.History.isNil /\ Len(rd.snap.History.items) >= 1)
        /\ (copied /\ rd.snap.UpdatedAt = 0) => pc \in {"new", "start_update"}

\* Start has returned and a Snapshot call with includeHistory is about to
\* return the published snapshot and a history with a point, while the
\* ticker task's update() waits for the write lock.
C36_Witness ==
    /\ pc = "tick_update" /\ upd = "lock"
    /\ rd.pc = "return" /\ rd.includeHistory
    /\ rd.snap.UpdatedAt = snapshot.UpdatedAt /\ rd.snap.UpdatedAt # 0
    /\ Len(rd.snap.History.items) >= 1
    /\ rd.snap.History.items = history

====
